---- MODULE Spec2Model ----
(***************************************************************************)
(* A model of cplib::io::Reader (src/src/io.hpp): a byte cursor over an    *)
(* input stream, the strict / leading-zeros flags, and the read            *)
(* operations.  A stream is a sequence of one-character strings and a      *)
(* cursor `pos` = the number of bytes already consumed.  Every read        *)
(* operation is a (recursive) operator from the stream, the cursor and     *)
(* the flags to an outcome record [kind, val, tok, pos]; kind is "ok" or   *)
(* the name of the exception class thrown, pos the cursor it leaves.       *)
(***************************************************************************)
EXTENDS Integers, Sequences, FiniteSets, TLC

VARIABLES source, pos, strict, leading_zeros, decimal_separator, last, pc, dest,
          heap, source_ptr, destroyed, lhs, rhs, result, sequence

\* The stream objects of the program, the one the Reader's unique_ptr
\* holds (0 for nullptr) and the number of times ~Reader has run.
ownership == <<heap, source_ptr, destroyed>>

\* The operands of a validation, the ValidationResult computed last and the
\* caller's container that the checks on sequences are given.
validation == <<lhs, rhs, result, sequence>>

vars == <<source, pos, strict, leading_zeros, decimal_separator, last, pc, dest,
          heap, source_ptr, destroyed, lhs, rhs, result, sequence>>

---------------------------------------------------------------------------
(* Bounds of the model.                                                    *)

\* Bit width of the modelled integer types (the code is a template over T).
Width == 4
\* Longest input of the Reader state machine (Spec).
MaxLen == 3
\* Longest input of the number-token specification (SpecNum).
MaxNumLen == 3
\* Longest input of the integer-token specification (SpecInt).
MaxTokLen == 3
\* Longest input file of the strict validator (SpecValidate).
MaxFileLen == 5
MaxStrLen == 3
MaxBound == 2
MaxTokenLen == 2
MaxFloatLen == 3
\* The stream objects one Reader gets bound to, and their longest content.
MaxStreams == 3
MaxOwnLen == 2
\* Longest message, in lines, of an operand of a combinator.
MaxLines == 3

\* Longest input of read_n_integers.
MaxNLen == 4

\* Largest number of elements asked of read_n_integers.
MaxN == 2

\* Longest input on which every operation of the Reader is tried.
MaxAnyLen == 3

\* Largest element of a sequence given to a check.
MaxValue == 2

\* Longest sequence given to a check.
MaxSeqLen == 3

\* Most values that lie in readable memory after the elements of a vector.
MaxBeyond == 2

---------------------------------------------------------------------------
(* Characters.                                                             *)

Digits == {"0", "1", "2", "3", "4", "5", "6", "7", "8", "9"}

\* c - '0'
DigitVal(c) ==
    CASE c = "0" -> 0 [] c = "1" -> 1 [] c = "2" -> 2 [] c = "3" -> 3
      [] c = "4" -> 4 [] c = "5" -> 5 [] c = "6" -> 6 [] c = "7" -> 7
      [] c = "8" -> 8 [] c = "9" -> 9

is_space(c) == c = " " \/ c = "\t" \/ c = "\r" \/ c = "\n"

is_numeric(c) == c \in Digits

RECURSIVE Pow2(_)
Pow2(k) == IF k = 0 THEN 1 ELSE 2 * Pow2(k - 1)

\* All sequences over A of length at most n.
RECURSIVE StringsUpTo(_, _)
StringsUpTo(A, n) ==
    IF n = 0 THEN {<<>>}
    ELSE LET S == StringsUpTo(A, n - 1)
         IN  S \cup {Append(s, a) : s \in {t \in S : Len(t) = n - 1}, a \in A}

---------------------------------------------------------------------------
(* Integer types: T is [signed, bits].                                     *)

UnsignedT == [signed |-> FALSE, bits |-> Width]
SignedT   == [signed |-> TRUE,  bits |-> Width]
IntTypes  == {UnsignedT, SignedT}

\* std::numeric_limits<T>::max() / min()
numeric_limits_max(T) ==
    IF T.signed THEN Pow2(T.bits - 1) - 1 ELSE Pow2(T.bits) - 1
numeric_limits_min(T) ==
    IF T.signed THEN 0 - Pow2(T.bits - 1) ELSE 0

\* static_cast<unsigned_T>(x): reduction modulo 2^bits
to_unsigned(x, bits) == x % Pow2(bits)
\* static_cast<T>(u) for signed T: the two's complement reading of u
to_signed(u, bits) == IF u >= Pow2(bits - 1) THEN u - Pow2(bits) ELSE u

---------------------------------------------------------------------------
(* Outcomes.                                                               *)

Ok(v, t, p)    == [kind |-> "ok", val |-> v, tok |-> t, pos |-> p]
Throw(k, p)    == [kind |-> k, val |-> 0, tok |-> <<>>, pos |-> p]

\* throw UnexpectedReadException(what): "Expected " + what
Expected(what, p) ==
    [kind |-> "UnexpectedReadException", val |-> 0, tok |-> <<what>>, pos |-> p]

EOFException             == "EOFException"
UnexpectedReadException  == "UnexpectedReadException"
OverflowException        == "OverflowException"
InvalidArgumentException == "InvalidArgumentException"
FailedValidationException == "FailedValidationException"

---------------------------------------------------------------------------
(* The byte cursor.                                                        *)

\* source->get(c); throws at end of input, where the cursor stays.
read_char(s, p) ==
    IF p < Len(s) THEN Ok(0, <<s[p + 1]>>, p + 1)
    ELSE Throw(EOFException, p)

\* An unget that is left out.
unget_left_out(p) == p

\* source->unget() after a successful get
unget(p) == p - 1

\* source->peek(); source->eof()
peek_eof(s, p) == p >= Len(s)

\* A must_be_space that takes any separator for a space.
must_be_space_any_separator(s, p) ==
    LET r == read_char(s, p)
    IN  IF r.kind # "ok" THEN r
        ELSE IF ~is_space(r.tok[1]) THEN Throw(UnexpectedReadException, r.pos)
        ELSE Ok(0, <<>>, r.pos)

must_be_space(s, p) ==
    LET r == read_char(s, p)
    IN  IF r.kind # "ok" THEN r
        ELSE IF r.tok[1] # " " THEN Expected("space", r.pos)
        ELSE Ok(0, <<>>, r.pos)

\* A must_be_newline that takes a carriage return alone for a line end.
must_be_newline_lone_cr(s, p) ==
    LET r == read_char(s, p)
    IN  IF r.kind # "ok" THEN r
        ELSE IF r.tok[1] \notin {"\r", "\n"}
             THEN Throw(UnexpectedReadException, r.pos)
        ELSE Ok(0, <<>>, r.pos)

must_be_newline(s, p) ==
    LET r1 == read_char(s, p)
    IN  IF r1.kind # "ok" THEN r1
        ELSE LET r2 == IF r1.tok[1] = "\r" THEN read_char(s, r1.pos) ELSE r1
             IN  IF r2.kind # "ok" THEN r2
                 ELSE IF r2.tok[1] # "\n"
                      THEN Expected("newline", r2.pos)
                      ELSE Ok(0, <<>>, r2.pos)

\* A must_be_eof that reads the byte it looks at.
must_be_eof_consuming(s, p) ==
    LET r == read_char(s, p)
    IN  IF r.kind # "ok" THEN Ok(0, <<>>, r.pos)
        ELSE Expected("EOF", r.pos)

must_be_eof(s, p) ==
    IF peek_eof(s, p) THEN Ok(0, <<>>, p)
    ELSE Expected("EOF", p)

\* The cursor skip_spaces leaves (noexcept).
RECURSIVE skip_spaces(_, _)
skip_spaces(s, p) ==
    LET r == read_char(s, p)
    IN  IF r.kind # "ok" THEN r.pos
        ELSE IF is_space(r.tok[1]) THEN skip_spaces(s, r.pos)
        ELSE unget(r.pos)

\* A loop condition that skips a '-' like any other non-digit.
skipped_as_non_numeric_with_minus(c) == ~is_numeric(c)

\* while (!is_numeric(c) && c != '-')
skipped_as_non_numeric(c) == ~is_numeric(c) /\ c # "-"

\* The cursor skip_non_numeric leaves (noexcept).
RECURSIVE skip_non_numeric(_, _)
skip_non_numeric(s, p) ==
    LET r == read_char(s, p)
    IN  IF r.kind # "ok" THEN r.pos
        ELSE IF skipped_as_non_numeric(r.tok[1])
             THEN skip_non_numeric(s, r.pos)
        ELSE unget(r.pos)

---------------------------------------------------------------------------
(* read_integer.                                                           *)

\* An overflow check that forgets the digit being appended.
would_overflow_without_units(n, units, limit) == n > limit \div 10

\* if (n > (limit - units) / T(10))
would_overflow(n, units, limit) == n > (limit - units) \div 10

\* A leading-zero check that ignores the flag.
leading_zero_rejected_always(n, start, lz) == n = 0 /\ ~start

\* if (n == 0 && !start && !leading_zeros)
leading_zero_rejected(n, start, lz) == n = 0 /\ ~start /\ ~lz

\* A catch block that rethrows whatever was read.
token_ended_by_eof_rethrows(r, n, start) == r

\* catch (EOFException const& e) { if (start) throw e; return n; }
token_ended_by_eof(r, n, start) == IF start THEN r ELSE Ok(n, <<>>, r.pos)

\* The do-while loop of read_unsigned_strict<T>, T unsigned of `bits` bits,
\* entered with the accumulator n and the flag start.
RECURSIVE read_unsigned_loop(_, _, _, _, _, _)
read_unsigned_loop(s, p, n, start, lz, bits) ==
    LET r     == read_char(s, p)
        limit == Pow2(bits) - 1
    IN  IF r.kind # "ok"
        THEN token_ended_by_eof(r, n, start)
        ELSE LET c == r.tok[1]
             IN  IF ~is_numeric(c)
                 THEN IF start THEN Throw(UnexpectedReadException, r.pos)
                      ELSE Ok(n, <<>>, unget(r.pos))
                 ELSE IF leading_zero_rejected(n, start, lz)
                      THEN Throw(UnexpectedReadException, r.pos)
                 ELSE IF would_overflow(n, DigitVal(c), limit)
                      THEN Throw(OverflowException, r.pos)
                 ELSE read_unsigned_loop(s, r.pos,
                          to_unsigned(10 * n + DigitVal(c), bits),
                          FALSE, lz, bits)

read_unsigned_strict(s, p, lz, bits) ==
    read_unsigned_loop(s, p, 0, TRUE, lz, bits)

\* A limit that is the maximum of T for negative values too.
signed_limit_symmetric(negative, T) ==
    to_unsigned(numeric_limits_max(T), T.bits)

\* negative ? static_cast<unsigned_T>(0) - numeric_limits<T>::min()
\*          : static_cast<unsigned_T>(numeric_limits<T>::max())
signed_limit(negative, T) ==
    IF negative THEN to_unsigned(0 - numeric_limits_min(T), T.bits)
    ELSE to_unsigned(numeric_limits_max(T), T.bits)

read_signed_strict(s, p, lz, T) ==
    LET r == read_char(s, p)
    IN  IF r.kind # "ok" THEN r
        ELSE LET c        == r.tok[1]
                 negative == c = "-"
             IN  IF ~negative /\ ~is_numeric(c)
                 THEN Throw(UnexpectedReadException, r.pos)
                 ELSE LET q == IF negative THEN r.pos ELSE unget(r.pos)
                          u == read_unsigned_strict(s, q, lz, T.bits)
                      IN  IF u.kind # "ok" THEN u
                          ELSE IF u.val > signed_limit(negative, T)
                               THEN Throw(OverflowException, u.pos)
                          ELSE IF negative
                               THEN Ok(to_signed(to_unsigned(0 - u.val, T.bits),
                                                 T.bits), <<>>, u.pos)
                          ELSE Ok(to_signed(u.val, T.bits), <<>>, u.pos)

\* A dispatch that reads every type as a signed one.
read_integer_strict_signed_only(s, p, lz, T) == read_signed_strict(s, p, lz, T)

read_integer_strict(s, p, lz, T) ==
    IF T.signed THEN read_signed_strict(s, p, lz, T)
    ELSE read_unsigned_strict(s, p, lz, T.bits)

\* A reader that skips before a number in strict mode too.
skip_before_number_always(s, p, st) == skip_non_numeric(s, p)

\* if (!strict) skip_non_numeric();
skip_before_number(s, p, st) == IF ~st THEN skip_non_numeric(s, p) ELSE p

read_integer(s, p, st, lz, T) ==
    read_integer_strict(s, skip_before_number(s, p, st), lz, T)

---------------------------------------------------------------------------
(* read_floating_point.  The value returned is the conversion of the       *)
(* accumulated text x_string, which is what the outcome carries (tok).     *)

\* The do-while loop of read_floating_point_strict.
RECURSIVE read_floating_point_loop(_, _, _, _, _, _, _)
read_floating_point_loop(s, p, x_string, is_zero, after_decimal_separator, lz, dsep) ==
    LET r == read_char(s, p)
    IN  IF r.kind # "ok"
        THEN IF x_string = <<>> \/ ~is_numeric(x_string[Len(x_string)])
             THEN r
             ELSE Ok(0, x_string, r.pos)
        ELSE LET c == r.tok[1]
             IN  IF ~is_numeric(c) /\ c # "-" /\ c # dsep
                 THEN IF x_string = <<>>
                      THEN Throw(UnexpectedReadException, r.pos)
                      ELSE Ok(0, x_string, unget(r.pos))
                 ELSE IF c = "-" /\ x_string # <<>>
                      THEN Throw(UnexpectedReadException, r.pos)
                 ELSE IF c = dsep
                      THEN IF x_string = <<>> \/ x_string = <<"-">>
                              \/ after_decimal_separator
                           THEN Throw(UnexpectedReadException, r.pos)
                           ELSE read_floating_point_loop(s, r.pos,
                                    Append(x_string, "."), is_zero, TRUE,
                                    lz, dsep)
                 ELSE IF is_zero /\ ~lz /\ ~after_decimal_separator
                         /\ x_string # <<>> /\ x_string # <<"-">>
                      THEN Throw(UnexpectedReadException, r.pos)
                 ELSE read_floating_point_loop(s, r.pos, Append(x_string, c),
                          is_zero /\ ~(is_numeric(c) /\ c # "0"),
                          after_decimal_separator, lz, dsep)

read_floating_point_strict(s, p, lz, dsep) ==
    read_floating_point_loop(s, p, <<>>, TRUE, FALSE, lz, dsep)

read_floating_point(s, p, st, lz, dsep) ==
    read_floating_point_strict(s, skip_before_number(s, p, st), lz, dsep)

---------------------------------------------------------------------------
(* The bytes the inputs are made of.                                       *)

ReaderAlphabet == {"1", "-", " ", "\t", "\r", "\n", "a"}
NumAlphabet    == {"0", "1", "-", ".", " ", "\t", "\r", "\n", "a"}
IntAlphabet    == Digits \cup {"-", " ", "a"}
FileAlphabet   == {"0", "1", "9", " ", "\t", "\r", "\n"}
StrAlphabet    == {"a", "b", " ", "\n"}
FloatAlphabet  == {"0", "1", "-", ".", ",", " ", "a"}
AllChars       ==
    ReaderAlphabet \cup NumAlphabet \cup IntAlphabet \cup FileAlphabet
        \cup StrAlphabet \cup FloatAlphabet

---------------------------------------------------------------------------
(* read_string.  check_char is a function on <<index, byte>>.              *)

\* [](std::size_t i, char c) { return true; }
always_true(s) == [ic \in (0 .. Len(s)) \X AllChars |-> TRUE]

\* std::string::npos, the default max_length
npos == -1

\* A bound check that lets one byte too many through.
size_ge_off_by_one(i, max_length) == max_length # npos /\ i > max_length

\* i >= max_length, on std::size_t
size_ge(i, max_length) == max_length # npos /\ i >= max_length

\* FailedValidationException::interval_constraint(var, low, high)
interval_constraint(var, p) ==
    [kind |-> "FailedValidationException", val |-> 0, tok |-> <<var>>, pos |-> p]

\* FailedValidationException("Invalid character 'c' at position i")
invalid_character(c, i, p) ==
    [kind |-> "FailedValidationException", val |-> i, tok |-> <<c>>, pos |-> p]

\* if (s.size() < min_length) throw ...; return s;
string_length_checked(str, p, min_length) ==
    IF Len(str) < min_length THEN interval_constraint("len(string)", p)
    ELSE Ok(0, str, p)

\* The for loop of read_string_strict, entered with index i = Len(str).
RECURSIVE read_string_loop(_, _, _, _, _, _)
read_string_loop(s, p, str, check_char, min_length, max_length) ==
    LET r == read_char(s, p)
        i == Len(str)
    IN  IF r.kind # "ok"
        THEN IF str = <<>> THEN r
             ELSE string_length_checked(str, r.pos, min_length)
        ELSE LET c == r.tok[1]
             IN  IF is_space(c)
                 THEN IF i = 0 THEN Throw(UnexpectedReadException, r.pos)
                      ELSE string_length_checked(str, unget(r.pos), min_length)
                 ELSE IF size_ge(i, max_length)
                      THEN interval_constraint("len(string)", r.pos)
                 ELSE IF ~check_char[<<i, c>>]
                      THEN invalid_character(c, i, r.pos)
                 ELSE read_string_loop(s, r.pos, Append(str, c), check_char,
                                       min_length, max_length)

read_string_strict(s, p, check_char, min_length, max_length) ==
    read_string_loop(s, p, <<>>, check_char, min_length, max_length)

\* A reader that skips before a string in strict mode too.
skip_before_string_always(s, p, st) == skip_spaces(s, p)

\* if (!strict) skip_spaces();
skip_before_string(s, p, st) == IF ~st THEN skip_spaces(s, p) ELSE p

read_string(s, p, st, check_char, min_length, max_length) ==
    read_string_strict(s, skip_before_string(s, p, st), check_char,
                       min_length, max_length)

\* [&allowed_chars](std::size_t i, char c) {
\*     return allowed_chars.find(c) != std::string::npos; }
allowed_chars_check(allowed_chars, s) ==
    [ic \in (0 .. Len(s)) \X AllChars |-> ic[2] \in allowed_chars]

\* read_string(exact_length)
read_string_exact(s, p, st, check_char, exact_length) ==
    IF exact_length > 0
    THEN read_string(s, p, st, check_char, exact_length, exact_length)
    ELSE read_string(s, p, st, check_char, 0, npos)

---------------------------------------------------------------------------
(* read_constant and read_any_of.                                          *)

\* A read_constant that gives back the bytes of a mismatch.
read_constant_restoring(s, p, token) ==
    IF token = <<>> THEN Throw(InvalidArgumentException, p)
    ELSE IF Len(s) - p < Len(token) THEN Throw(EOFException, Len(s))
    ELSE IF SubSeq(s, p + 1, p + Len(token)) # token
         THEN Expected(token, p)
    ELSE Ok(0, token, p + Len(token))

\* source->read(s, token.size()) sets eofbit exactly on a short read, which
\* takes every byte that was left.
read_constant(s, p, token) ==
    IF token = <<>> THEN Throw(InvalidArgumentException, p)
    ELSE IF Len(s) - p < Len(token) THEN Throw(EOFException, Len(s))
    ELSE IF SubSeq(s, p + 1, p + Len(token)) # token
         THEN Expected(token, p + Len(token))
    ELSE Ok(0, token, p + Len(token))

\* std::min(a, b.size()) on std::size_t, where npos is the largest value
size_min(a, b) == IF a = npos \/ b < a THEN b ELSE a

\* std::max(a, b.size())
size_max(a, b) == IF b > a THEN b ELSE a

\* std::accumulate(tokens.begin(), tokens.end(), npos, min of sizes)
RECURSIVE accumulate_min(_, _)
accumulate_min(tokens, a) ==
    IF tokens = <<>> THEN a
    ELSE accumulate_min(Tail(tokens), size_min(a, Len(Head(tokens))))

\* std::accumulate(tokens.begin(), tokens.end(), 0, max of sizes)
RECURSIVE accumulate_max(_, _)
accumulate_max(tokens, a) ==
    IF tokens = <<>> THEN a
    ELSE accumulate_max(Tail(tokens), size_max(a, Len(Head(tokens))))

\* A membership test that takes a prefix of a candidate for the candidate.
not_found_prefix(tokens, str) ==
    \A k \in 1 .. Len(tokens) :
        Len(tokens[k]) < Len(str) \/ SubSeq(tokens[k], 1, Len(str)) # str

\* std::find(tokens.begin(), tokens.end(), s) == tokens.end()
not_found(tokens, str) == \A k \in 1 .. Len(tokens) : tokens[k] # str

read_any_of(s, p, st, tokens) ==
    IF tokens = <<>> THEN Throw(InvalidArgumentException, p)
    ELSE LET min_length == accumulate_min(tokens, npos)
             max_length == accumulate_max(tokens, 0)
         IN  IF min_length = 0 THEN Throw(InvalidArgumentException, p)
             ELSE LET r == read_string(s, p, st, always_true(s),
                                       min_length, max_length)
                  IN  IF r.kind # "ok" THEN r
                      ELSE IF not_found(tokens, r.tok)
                           THEN Expected("one of", r.pos)
                      ELSE r

---------------------------------------------------------------------------
(* read_n and read_n_integers.  read_single is the name of the reader the  *)
(* lambda calls; the value of a successful outcome is the vector v.        *)

RECURSIVE read_n_loop(_, _, _, _, _, _, _, _, _, _)
\* for (std::size_t i = 0; i < n; ++i)
read_n_loop(s, p, st, lz, T, n, read_single, sep, i, v) ==
    IF ~(i < n) THEN Ok(v, <<>>, p)
    ELSE LET r == IF read_single = "read_integer"
                  THEN read_integer(s, p, st, lz, T)
                  ELSE read_integer_strict(s, p, lz, T)
         IN  IF r.kind # "ok" THEN r
             ELSE IF Len(sep) > 0 /\ i + 1 < n
             THEN LET c == read_constant(s, r.pos, sep)
                  IN  IF c.kind # "ok" THEN c
                      ELSE read_n_loop(s, c.pos, st, lz, T, n, read_single, sep,
                                       i + 1, Append(v, r.val))
             ELSE read_n_loop(s, r.pos, st, lz, T, n, read_single, sep,
                              i + 1, Append(v, r.val))

read_n(s, p, st, lz, T, n, read_single, sep) ==
    IF n = 0 THEN Throw(InvalidArgumentException, p)
    ELSE read_n_loop(s, IF ~st THEN skip_spaces(s, p) ELSE p, st, lz, T, n,
                     read_single, sep, 0, <<>>)

\* A read_n_integers that reads its elements leniently with a separator too.
read_n_integers_lenient(s, p, st, lz, T, n, sep) ==
    read_n(s, p, st, lz, T, n, "read_integer", sep)

read_n_integers(s, p, st, lz, T, n, sep) ==
    IF Len(sep) = 0 THEN read_n(s, p, st, lz, T, n, "read_integer", sep)
    ELSE read_n(s, p, st, lz, T, n, "read_integer_strict", sep)

---------------------------------------------------------------------------
(* Decimal text of an integer, as operator<< and std::to_string print it.  *)

DigitChar(d) ==
    CASE d = 0 -> "0" [] d = 1 -> "1" [] d = 2 -> "2" [] d = 3 -> "3"
      [] d = 4 -> "4" [] d = 5 -> "5" [] d = 6 -> "6" [] d = 7 -> "7"
      [] d = 8 -> "8" [] d = 9 -> "9"

\* The decimal digits of m >= 0, most significant first.
RECURSIVE decimal_digits(_)
decimal_digits(m) ==
    IF m < 10 THEN <<DigitChar(m)>>
    ELSE Append(decimal_digits(m \div 10), DigitChar(m % 10))

---------------------------------------------------------------------------
(* ValidationResult (src/src/validation.hpp).  A message is a sequence of  *)
(* lines; a line is its indentation, in units of two spaces, and its text, *)
(* a sequence of strings.                                                  *)

Line(text) == [indent |-> 0, text |-> text]

\* ValidationResult(std::string const& success)
Success(msg) == [holds |-> "std::string", msg |-> msg]

\* ValidationResult(FailedValidationException const& failure)
Failure(msg) == [holds |-> "FailedValidationException", msg |-> msg]

\* explicit ValidationResult() = default: the variant holds an empty string
ValidationResult == Success(<<Line(<<>>)>>)

success(r) == r.holds = "std::string"

failed(r) == r.holds = "FailedValidationException"

\* success() ? get_success() : std::string(get_failure().what())
message(r) == r.msg

\* An indent that forgets the lines after the first.
indent_first_line(s) ==
    [k \in 1 .. Len(s) |-> IF k = 1 THEN [s[k] EXCEPT !.indent = @ + 1] ELSE s[k]]

\* indent + std::regex_replace(s, std::regex("\\n"), "\n" + indent)
indent(s) == [k \in 1 .. Len(s) |-> [s[k] EXCEPT !.indent = @ + 1]]

operator_not(r) ==
    IF success(r) THEN Failure(<<Line(<<"NOT">>)>> \o indent(message(r)))
    ELSE Success(<<Line(<<"NOT">>)>> \o indent(message(r)))

\* An AND that succeeds as soon as one operand does.
operator_and_either(x, y) ==
    LET new_message ==
            indent(message(x)) \o <<Line(<<"AND">>)>> \o indent(message(y))
    IN  IF success(x) \/ success(y) THEN Success(new_message)
        ELSE Failure(new_message)

operator_and(x, y) ==
    LET new_message ==
            indent(message(x)) \o <<Line(<<"AND">>)>> \o indent(message(y))
    IN  IF success(x) /\ success(y) THEN Success(new_message)
        ELSE Failure(new_message)

operator_or(x, y) ==
    LET new_message ==
            indent(message(x)) \o <<Line(<<"OR">>)>> \o indent(message(y))
    IN  IF success(x) \/ success(y) THEN Success(new_message)
        ELSE Failure(new_message)

\* std::to_string of a non-negative integer
to_string(x) == decimal_digits(x)

eq(x, y) ==
    IF x = y THEN Success(<<Line(<<"Elements are equal">>)>>)
    ELSE Failure(<<Line(<<"Elements are not equal">>)>>)

lt(x, y) ==
    IF x < y THEN Success(<<Line(<<"Comparison satisfied">>)>>)
    ELSE Failure(<<Line(<<"Comparison failed: ">> \o to_string(x)
                         \o <<" >= ">> \o to_string(y))>>)

neq(x, y) ==
    IF ~(x = y) THEN Success(<<Line(<<"Elements are unequal">>)>>)
    ELSE Failure(<<Line(<<"Elements are not unequal: ">> \o to_string(x)
                         \o <<" != ">> \o to_string(y))>>)

\* "[" + to_string(low) + ", " + to_string(high) + "]"
interval(low, high) ==
    <<"[">> \o to_string(low) \o <<", ">> \o to_string(high) \o <<"]">>

\* A between that leaves the lower end of the interval out.
between_above(x, low, high) ==
    IF x <= low
    THEN Failure(<<Line(<<"Value does not lie in ">> \o interval(low, high)
                        \o <<": ">> \o to_string(x) \o <<" < ">>
                        \o to_string(low))>>)
    ELSE IF high < x
    THEN Failure(<<Line(<<"Value does not lie in ">> \o interval(low, high)
                        \o <<": ">> \o to_string(x) \o <<" > ">>
                        \o to_string(high))>>)
    ELSE Success(<<Line(<<"Value (x = ">> \o to_string(x) \o <<") lies in ">>
                        \o interval(low, high))>>)

between(x, low, high) ==
    IF x < low
    THEN Failure(<<Line(<<"Value does not lie in ">> \o interval(low, high)
                        \o <<": ">> \o to_string(x) \o <<" < ">>
                        \o to_string(low))>>)
    ELSE IF high < x
    THEN Failure(<<Line(<<"Value does not lie in ">> \o interval(low, high)
                        \o <<": ">> \o to_string(x) \o <<" > ">>
                        \o to_string(high))>>)
    ELSE Success(<<Line(<<"Value (x = ">> \o to_string(x) \o <<") lies in ">>
                        \o interval(low, high))>>)

---------------------------------------------------------------------------
(* Checks on sequences.  A range is a pair of iterators into a container:  *)
(* `mem` is the memory the container's elements lie in, begin and end are  *)
(* offsets into it, counted from 0, and *it is mem[it + 1].  A call yields *)
(* its ValidationResult and the offsets it dereferenced, in order; a       *)
(* dereference beyond the mapped memory ends the program.                  *)

Return(r, reads) == [kind |-> "return", value |-> r, reads |-> reads]

Crash(reads) == [kind |-> "SIGSEGV", value |-> ValidationResult, reads |-> reads]

\* predicate(*it): the predicates are the lambda of all_between, which
\* captures low and high, and a lambda that calls neq with a captured value.
predicate(P, x) ==
    IF P.fn = "between" THEN between(x, P.low, P.high) ELSE neq(P.cur, x)

\* "Failed check for element " + to_string(distance) + ": " + res.message()
failed_check(distance, m) ==
    <<[indent |-> 0,
       text |-> <<"Failed check for element ">> \o to_string(distance)
                \o <<": ">> \o [k \in 1 .. 2 * m[1].indent |-> " "]
                \o m[1].text]>> \o Tail(m)

RECURSIVE all_loop(_, _, _, _, _, _)
\* for (It it = begin; it != end; it = std::next(it))
all_loop(mem, begin, end, P, it, reads) ==
    IF it = end
    THEN Return(Success(<<Line(<<"Property satisfied by all elements">>)>>),
                reads)
    ELSE LET res == predicate(P, mem[it + 1])
         IN  IF failed(res)
             THEN Return(Failure(failed_check(it - begin, message(res))),
                         Append(reads, it))
             ELSE all_loop(mem, begin, end, P, it + 1, Append(reads, it))

all(mem, begin, end, P) == all_loop(mem, begin, end, P, begin, <<>>)

all_between(mem, begin, end, low, high) ==
    all(mem, begin, end, [fn |-> "between", low |-> low, high |-> high])

\* Where std::sort puts x among the elements of s, which are in order.
insert(x, s) ==
    SelectSeq(s, LAMBDA y : y < x) \o <<x>> \o SelectSeq(s, LAMBDA y : ~(y < x))

RECURSIVE std_sort(_)
\* std::sort(v.begin(), v.end())
std_sort(s) == IF s = <<>> THEN <<>> ELSE insert(Head(s), std_sort(Tail(s)))

RECURSIVE distinct_loop(_, _, _, _)
\* for (auto it = v.begin(); std::next(it) != v.end(); it = std::next(it))
distinct_loop(mem, end, it, reads) ==
    IF it + 1 = end
    THEN Return(Success(<<Line(<<"Elements are distinct">>)>>), reads)
    ELSE IF it + 2 > Len(mem) THEN Crash(reads \o <<it, it + 1>>)
    ELSE IF mem[it + 1] = mem[it + 2]
    THEN Return(Failure(<<Line(<<"Elements are not distinct: Multiple occurrences of ">>
                              \o to_string(mem[it + 1]))>>),
                reads \o <<it, it + 1>>)
    ELSE distinct_loop(mem, end, it + 1, reads \o <<it, it + 1>>)

\* A distinct that compares the neighbours in the order the caller gave.
distinct_unsorted(s, begin, end, beyond) ==
    LET v == SubSeq(s, begin + 1, end)
    IN  distinct_loop(v \o beyond, Len(v), 0, <<>>)

\* The elements are copied into a vector v of the function's own, which is
\* sorted and walked; `beyond` is what lies after the elements of v.
distinct(s, begin, end, beyond) ==
    LET v == std_sort(SubSeq(s, begin + 1, end))
    IN  distinct_loop(v \o beyond, Len(v), 0, <<>>)

\* The lambda that sorted(begin, end, strict, decreasing) builds from its
\* flags, or the comparator of the caller, here std::less.
compare(C, x, y) ==
    IF C.form = "flags"
    THEN LET check_increasing == IF C.strict THEN x < y ELSE ~(y < x)
         IN  IF C.decreasing THEN ~check_increasing ELSE check_increasing
    ELSE x < y

RECURSIVE sorted_loop(_, _, _, _, _, _)
\* for (It it = begin; std::next(it) != end; it = std::next(it))
sorted_loop(mem, begin, end, C, it, reads) ==
    IF it + 1 = end
    THEN Return(Success(<<Line(<<"Array is sorted">>)>>), reads)
    ELSE IF it + 2 > Len(mem) THEN Crash(reads \o <<it, it + 1>>)
    ELSE IF ~compare(C, mem[it + 1], mem[it + 2])
    THEN Return(Failure(<<Line(<<"Array is not sorted: Wrong order at positions ">>
                              \o to_string(it - begin) \o <<" and ">>
                              \o to_string(it - begin + 1))>>),
                reads \o <<it, it + 1>>)
    ELSE sorted_loop(mem, begin, end, C, it + 1, reads \o <<it, it + 1>>)

\* sorted(begin, end, compare); `beyond` is what lies after the elements of
\* the caller's container.
sorted(s, begin, end, C, beyond) ==
    sorted_loop(s \o beyond, begin, end, C, begin, <<>>)

\* No validation has been performed.
NoValidation ==
    /\ lhs = ValidationResult
    /\ rhs = ValidationResult
    /\ result = [op |-> "none", value |-> ValidationResult]
    /\ sequence = <<>>

---------------------------------------------------------------------------
(* The Reader as a state machine.  `last` records the operation performed  *)
(* last: its name, the integer type it was instantiated with, its outcome  *)
(* and the cursor it started from.                                         *)

TypeName(T) == IF T.signed THEN "signed" ELSE "unsigned"

NoOp == [op |-> "none", ty |-> "", kind |-> "ok", val |-> 0, tok |-> <<>>,
         pos0 |-> 0]

\* A stream object: who created it, how many times the Reader's deleter
\* has run on it, and whether the owner of an external stream has ended
\* its lifetime.
Stream(origin) == [origin |-> origin, deletes |-> 0, ended |-> FALSE]

\* std::default_delete<std::istream>: delete ptr (nothing for nullptr)
default_delete(h, ptr) ==
    IF ptr = 0 THEN h ELSE [h EXCEPT ![ptr].deletes = @ + 1]

\* Reader(bool strict) followed by with_string_stream(s)
Reader(s, st) ==
    /\ heap = <<Stream("string")>>
    /\ source_ptr = 1
    /\ destroyed = 0
    /\ NoValidation
    /\ source = s
    /\ pos = 0
    /\ strict = st
    /\ leading_zeros = FALSE
    /\ decimal_separator = "."
    /\ last = NoOp
    /\ pc = 0
    /\ dest = <<>>

\* One call of a read operation with outcome r.
Call(op, ty, r) ==
    /\ last' = [op |-> op, ty |-> ty, kind |-> r.kind, val |-> r.val,
                tok |-> r.tok, pos0 |-> pos]
    /\ pos' = r.pos
    /\ UNCHANGED <<source, strict, leading_zeros, decimal_separator, dest>>
    /\ UNCHANGED <<ownership, validation>>

\* A setter that rewinds the source.
Set_rewinding(op) ==
    /\ last' = [NoOp EXCEPT !.op = op, !.pos0 = pos]
    /\ pos' = 0
    /\ UNCHANGED <<source, pc, dest>>
    /\ UNCHANGED <<ownership, validation>>

\* One call of a setter.
Set(op) ==
    /\ last' = [NoOp EXCEPT !.op = op, !.pos0 = pos]
    /\ UNCHANGED <<source, pos, pc, dest>>
    /\ UNCHANGED <<ownership, validation>>

ReadInteger(T) ==
    /\ Call("read_integer", TypeName(T),
            read_integer(source, pos, strict, leading_zeros, T))
    /\ UNCHANGED pc

ReadFloatingPoint ==
    /\ Call("read_floating_point", "",
            read_floating_point(source, pos, strict, leading_zeros,
                                decimal_separator))
    /\ UNCHANGED pc

\* read_string() : read_string(0, npos) with the always-true check
ReadString ==
    /\ Call("read_string", "",
            read_string(source, pos, strict, always_true(source), 0, npos))
    /\ UNCHANGED pc

ReadChar ==
    /\ Call("read_char", "", read_char(source, pos))
    /\ UNCHANGED pc

MustBeSpace ==
    /\ Call("must_be_space", "", must_be_space(source, pos))
    /\ UNCHANGED pc

MustBeNewline ==
    /\ Call("must_be_newline", "", must_be_newline(source, pos))
    /\ UNCHANGED pc

MustBeEof ==
    /\ Call("must_be_eof", "", must_be_eof(source, pos))
    /\ UNCHANGED pc

SkipSpaces ==
    /\ Call("skip_spaces", "", Ok(0, <<>>, skip_spaces(source, pos)))
    /\ UNCHANGED pc

SkipNonNumeric ==
    /\ Call("skip_non_numeric", "", Ok(0, <<>>, skip_non_numeric(source, pos)))
    /\ UNCHANGED pc

MakeStrict ==
    /\ Set("make_strict")
    /\ strict' = TRUE
    /\ UNCHANGED <<leading_zeros, decimal_separator>>

MakeNonStrict ==
    /\ Set("make_non_strict")
    /\ strict' = FALSE
    /\ UNCHANGED <<leading_zeros, decimal_separator>>

WithLeadingZeros ==
    /\ Set("with_leading_zeros")
    /\ leading_zeros' = TRUE
    /\ UNCHANGED <<strict, decimal_separator>>

WithoutLeadingZeros ==
    /\ Set("without_leading_zeros")
    /\ leading_zeros' = FALSE
    /\ UNCHANGED <<strict, decimal_separator>>

Init == \E s \in StringsUpTo(ReaderAlphabet, MaxLen), st \in BOOLEAN :
            Reader(s, st)

Next ==
    \/ \E T \in IntTypes : ReadInteger(T)
    \/ ReadFloatingPoint
    \/ ReadString
    \/ ReadChar
    \/ MustBeSpace
    \/ MustBeNewline
    \/ MustBeEof
    \/ SkipSpaces
    \/ SkipNonNumeric
    \/ MakeStrict
    \/ MakeNonStrict
    \/ WithLeadingZeros
    \/ WithoutLeadingZeros

Spec == Init /\ [][Next]_vars

---------------------------------------------------------------------------
(* The number and string readers alone, over inputs that hold zeros and    *)
(* the decimal separator.                                                  *)

InitNum == \E s \in StringsUpTo(NumAlphabet, MaxNumLen), st \in BOOLEAN :
               Reader(s, st)

NextNum ==
    \/ \E T \in IntTypes : ReadInteger(T)
    \/ ReadFloatingPoint
    \/ ReadString
    \/ MakeStrict
    \/ MakeNonStrict
    \/ WithLeadingZeros
    \/ WithoutLeadingZeros

SpecNum == InitNum /\ [][NextNum]_vars

---------------------------------------------------------------------------
(* read_integer alone, over inputs that hold every digit.                  *)

InitInt == \E s \in StringsUpTo(IntAlphabet, MaxTokLen), st \in BOOLEAN :
               Reader(s, st)

NextInt ==
    \/ \E T \in IntTypes : ReadInteger(T)
    \/ WithLeadingZeros
    \/ WithoutLeadingZeros

SpecInt == InitInt /\ [][NextInt]_vars

---------------------------------------------------------------------------
(* read_string with a check and length bounds, over inputs of letters and  *)
(* separators.  The operation recorded carries its arguments.              *)

CheckNames == {"any", "allowed", "index"}

\* The checks read_string is called with: none, the allowed characters
\* "a", and a check on the index ('b' only at index 1).
CheckChar(name, s) ==
    CASE name = "any" -> always_true(s)
      [] name = "allowed" -> allowed_chars_check({"a"}, s)
      [] name = "index" ->
           [ic \in (0 .. Len(s)) \X AllChars |-> (ic[2] = "b") => (ic[1] = 1)]

Lengths == 0 .. MaxBound

\* read_string(check_char, min_length, max_length)
ReadStringWith(ck, mn, mx) ==
    /\ Call("read_string", [check |-> ck, min |-> mn, max |-> mx],
            read_string(source, pos, strict, CheckChar(ck, source), mn, mx))
    /\ UNCHANGED pc

ReadStringChecked ==
    \E ck \in CheckNames, mn \in Lengths, mx \in Lengths \cup {npos} :
        ReadStringWith(ck, mn, mx)

\* read_string(exact_length)
ReadStringOfLength(k) ==
    /\ Call("read_string_exact", [check |-> "any", min |-> k, max |-> k],
            read_string_exact(source, pos, strict, always_true(source), k))
    /\ UNCHANGED pc

ReadStringExact == \E k \in Lengths : ReadStringOfLength(k)

InitStr == \E s \in StringsUpTo(StrAlphabet, MaxStrLen), st \in BOOLEAN :
               Reader(s, st)

NextStr ==
    \/ ReadStringChecked
    \/ ReadStringExact
    \/ MakeStrict
    \/ MakeNonStrict

SpecStr == InitStr /\ [][NextStr]_vars

---------------------------------------------------------------------------
(* read_constant and read_any_of, over the same inputs.                    *)

Tokens == StringsUpTo({"a", "b", " "}, MaxTokenLen)

Candidates == StringsUpTo({"a", "b"}, MaxTokenLen)

\* The candidate lists: none, one candidate, "ab" and one more.
CandidateLists ==
    {<<>>} \cup {<<c>> : c \in Candidates}
           \cup {<<(<<"a", "b">>), c>> : c \in Candidates}

ReadConstantOf(token) ==
    /\ Call("read_constant", token, read_constant(source, pos, token))
    /\ UNCHANGED pc

ReadConstant == \E token \in Tokens : ReadConstantOf(token)

ReadAnyOfList(tokens) ==
    /\ Call("read_any_of", tokens, read_any_of(source, pos, strict, tokens))
    /\ UNCHANGED pc

ReadAnyOf == \E tokens \in CandidateLists : ReadAnyOfList(tokens)

InitTok == \E s \in StringsUpTo(StrAlphabet, MaxStrLen), st \in BOOLEAN :
               Reader(s, st)

NextTok ==
    \/ ReadConstant
    \/ ReadAnyOf
    \/ MakeStrict
    \/ MakeNonStrict

SpecTok == InitTok /\ [][NextTok]_vars

---------------------------------------------------------------------------
(* read_floating_point alone, with both decimal separators.                *)

WithCommaAsDecimalSeparator ==
    /\ Set("with_comma_as_decimal_separator")
    /\ decimal_separator' = ","
    /\ UNCHANGED <<strict, leading_zeros>>

WithDotAsDecimalSeparator ==
    /\ Set("with_dot_as_decimal_separator")
    /\ decimal_separator' = "."
    /\ UNCHANGED <<strict, leading_zeros>>

InitFloat == \E s \in StringsUpTo(FloatAlphabet, MaxFloatLen), st \in BOOLEAN :
                 Reader(s, st)

NextFloat ==
    \/ ReadFloatingPoint
    \/ WithLeadingZeros
    \/ WithoutLeadingZeros
    \/ WithCommaAsDecimalSeparator
    \/ WithDotAsDecimalSeparator

SpecFloat == InitFloat /\ [][NextFloat]_vars

---------------------------------------------------------------------------
(* The lifetime of the source.  A Reader is constructed without a stream,  *)
(* on a file it opens, or on a stream of its caller; it is rebound with    *)
(* with_string_stream and destroyed, the destructor running once when      *)
(* called explicitly and once more when the object goes out of scope       *)
(* (tests/io_test.cpp, TearDown).  Deleting a stream that was not          *)
(* allocated with new is undefined: the program goes on or is aborted.     *)

OwnStrings == StringsUpTo({"a", " "}, MaxOwnLen)

Constructors == {"Reader()", "Reader(file_name)", "Reader(std::istream&)"}

\* Reader() / Reader(const char* file_name) / Reader(std::istream& source)
Construct(ctor, s) ==
    /\ source = IF ctor = "Reader()" THEN <<>> ELSE s
    /\ pos = 0
    /\ strict = FALSE
    /\ leading_zeros = FALSE
    /\ decimal_separator = "."
    /\ last = NoOp
    /\ pc = 0
    /\ dest = <<>>
    /\ heap = CASE ctor = "Reader()" -> <<>>
                [] ctor = "Reader(file_name)" -> <<Stream("file")>>
                [] ctor = "Reader(std::istream&)" -> <<Stream("external")>>
    /\ source_ptr = IF ctor = "Reader()" THEN 0 ELSE 1
    /\ destroyed = 0
    /\ NoValidation

\* The program runs: not aborted by an invalid delete.
Running == last.kind # "abort"

\* What deleting the stream ptr does to the program: an invalid delete
\* (of a stream that was not allocated with new) may abort it.
DeleteOutcomes(h, ptr) ==
    IF ptr # 0 /\ h[ptr].origin = "external" THEN {"ok", "abort"} ELSE {"ok"}

\* reader.with_string_stream(s): source.reset(new std::istringstream(s))
Rebind ==
    /\ Running
    /\ destroyed = 0
    /\ Len(heap) < MaxStreams
    /\ \E s \in OwnStrings : \E out \in DeleteOutcomes(heap, source_ptr) :
           /\ source' = s
           /\ pos' = 0
           /\ heap' = Append(default_delete(heap, source_ptr), Stream("string"))
           /\ source_ptr' = Len(heap) + 1
           /\ last' = [NoOp EXCEPT !.op = "with_string_stream", !.kind = out]
    /\ UNCHANGED <<strict, leading_zeros, decimal_separator, pc, dest, destroyed>>
    /\ UNCHANGED validation

\* ~Reader() { source.get_deleter()(source.release()); }
Destroy ==
    /\ Running
    /\ destroyed < 2
    /\ \E out \in DeleteOutcomes(heap, source_ptr) :
           last' = [NoOp EXCEPT !.op = "~Reader", !.kind = out]
    /\ heap' = default_delete(heap, source_ptr)
    /\ source_ptr' = 0
    /\ destroyed' = destroyed + 1
    /\ UNCHANGED <<source, pos, strict, leading_zeros, decimal_separator, pc,
                   dest>>
    /\ UNCHANGED validation

\* The caller's stream goes out of scope.
OwnerEnds ==
    /\ Running
    /\ \E i \in 1 .. Len(heap) :
           /\ heap[i].origin = "external"
           /\ ~heap[i].ended
           /\ heap' = [heap EXCEPT ![i].ended = TRUE]
    /\ last' = [NoOp EXCEPT !.op = "owner_ends"]
    /\ UNCHANGED <<source, pos, strict, leading_zeros, decimal_separator, pc,
                   dest, source_ptr, destroyed>>
    /\ UNCHANGED validation

\* A read through the Reader while it holds a stream.
ReadCharOwned ==
    /\ Running
    /\ destroyed = 0
    /\ source_ptr # 0
    /\ ReadChar

InitOwn == \E ctor \in Constructors, s \in OwnStrings : Construct(ctor, s)

NextOwn ==
    \/ Rebind
    \/ Destroy
    \/ OwnerEnds
    \/ ReadCharOwned

SpecOwn == InitOwn /\ [][NextOwn]_vars

---------------------------------------------------------------------------
(* read_n_integers, over inputs of numbers and blanks.                     *)

NAlphabet == {"1", "-", " "}

\* No separator, a blank, and two blanks.
ElementSeparators == {<<>>, <<" ">>, <<" ", " ">>}

\* read_n_integers<T>(n, sep)
ReadNIntegersOf(T, n, sep) ==
    /\ Call("read_n_integers", [T |-> TypeName(T), n |-> n, sep |-> sep],
            read_n_integers(source, pos, strict, leading_zeros, T, n, sep))
    /\ UNCHANGED pc

ReadNIntegers ==
    \E T \in IntTypes, n \in 0 .. MaxN, sep \in ElementSeparators :
        ReadNIntegersOf(T, n, sep)

InitN == \E s \in StringsUpTo(NAlphabet, MaxNLen), st \in BOOLEAN : Reader(s, st)

NextN ==
    \/ ReadNIntegers

SpecN == InitN /\ [][NextN]_vars

---------------------------------------------------------------------------
(* Every operation of the Reader on one source, those that take arguments *)
(* with a few of them: strings of one or two bytes, the tokens "a" and     *)
(* "1a", two numbers with or without a blank between them.                 *)

AnyAlphabet == {"1", "-", " ", "a"}

AnyTokens == {<<>>, <<"a">>, <<"1", "a">>}

InitAny == \E s \in StringsUpTo(AnyAlphabet, MaxAnyLen), st \in BOOLEAN :
               Reader(s, st)

NextAny ==
    \/ \E T \in IntTypes : ReadInteger(T)
    \/ ReadFloatingPoint
    \/ ReadString
    \/ \E ck \in CheckNames : ReadStringWith(ck, 1, 2)
    \/ ReadStringOfLength(1)
    \/ \E token \in AnyTokens : ReadConstantOf(token)
    \/ ReadAnyOfList(<<(<<"a">>), (<<"1", "a">>)>>)
    \/ \E sep \in {<<>>, <<" ">>} : ReadNIntegersOf(SignedT, 2, sep)
    \/ ReadChar
    \/ MustBeSpace
    \/ MustBeNewline
    \/ MustBeEof
    \/ SkipSpaces
    \/ SkipNonNumeric
    \/ MakeStrict
    \/ MakeNonStrict
    \/ WithLeadingZeros
    \/ WithoutLeadingZeros
    \/ WithCommaAsDecimalSeparator
    \/ WithDotAsDecimalSeparator

SpecAny == InitAny /\ [][NextAny]_vars

---------------------------------------------------------------------------
(* The result algebra.  The operands start as results of eq and lt on      *)
(* small numbers, or default-constructed; a combinator is applied to them  *)
(* and its result becomes an operand of the next one.                      *)

Values == {0, 1}

Primitives ==
    {ValidationResult} \cup {eq(x, y) : x \in Values, y \in Values}
                       \cup {lt(x, y) : x \in Values, y \in Values}

\* What the Reader's variables hold while it is not used.
ReaderIdle ==
    /\ source = <<>>
    /\ pos = 0
    /\ strict = FALSE
    /\ leading_zeros = FALSE
    /\ decimal_separator = "."
    /\ last = NoOp
    /\ pc = 0
    /\ dest = <<>>
    /\ heap = <<>>
    /\ source_ptr = 0
    /\ destroyed = 0

reader_vars ==
    <<source, pos, strict, leading_zeros, decimal_separator, last, pc, dest>>

\* !lhs
Not ==
    /\ result' = [op |-> "NOT", value |-> operator_not(lhs)]
    /\ UNCHANGED <<lhs, rhs, sequence, reader_vars, ownership>>

\* lhs && rhs
And ==
    /\ result' = [op |-> "AND", value |-> operator_and(lhs, rhs)]
    /\ UNCHANGED <<lhs, rhs, sequence, reader_vars, ownership>>

\* lhs || rhs
Or ==
    /\ result' = [op |-> "OR", value |-> operator_or(lhs, rhs)]
    /\ UNCHANGED <<lhs, rhs, sequence, reader_vars, ownership>>

\* The result computed becomes the left operand of the next combinator.
ComposeLeft ==
    /\ result.op # "none"
    /\ Len(message(result.value)) <= MaxLines
    /\ lhs' = result.value
    /\ result' = [op |-> "none", value |-> ValidationResult]
    /\ UNCHANGED <<rhs, sequence, reader_vars, ownership>>

\* The result computed becomes the right operand of the next combinator.
ComposeRight ==
    /\ result.op # "none"
    /\ Len(message(result.value)) <= MaxLines
    /\ rhs' = result.value
    /\ result' = [op |-> "none", value |-> ValidationResult]
    /\ UNCHANGED <<lhs, sequence, reader_vars, ownership>>

InitVal ==
    /\ ReaderIdle
    /\ lhs \in Primitives
    /\ rhs \in Primitives
    /\ result = [op |-> "none", value |-> ValidationResult]
    /\ sequence = <<>>

NextVal ==
    \/ Not
    \/ And
    \/ Or
    \/ ComposeLeft
    \/ ComposeRight

SpecVal == InitVal /\ [][NextVal]_vars

---------------------------------------------------------------------------
(* The checks on sequences.  The caller's container holds small numbers;   *)
(* a check is given a range of it, and the memory after the elements of a  *)
(* vector holds some values that are not its own, or nothing that can be   *)
(* read.                                                                   *)

SeqValues == 0 .. MaxValue

Sequences == UNION {[1 .. n -> SeqValues] : n \in 0 .. MaxSeqLen}

Predicates ==
    {[fn |-> "between", low |-> l, high |-> h] : l \in SeqValues, h \in SeqValues}
    \cup {[fn |-> "neq", cur |-> c] : c \in SeqValues}

\* val::all(begin, end, predicate) and val::all_between(begin, end, low, high)
All ==
    /\ result.op = "none"
    /\ \E begin \in 0 .. Len(sequence), P \in Predicates :
         \E end \in begin .. Len(sequence) :
           result' = [op |-> "all", begin |-> begin, end |-> end, arg |-> P,
                      out |-> IF P.fn = "between"
                              THEN all_between(sequence, begin, end, P.low, P.high)
                              ELSE all(sequence, begin, end, P)]
    /\ UNCHANGED <<lhs, rhs, sequence, reader_vars, ownership>>

\* What may lie in readable memory after the elements of a vector.
Beyond == UNION {[1 .. n -> SeqValues] : n \in 0 .. MaxBeyond}

Comparators ==
    {[form |-> "flags", strict |-> st, decreasing |-> de] :
        st \in BOOLEAN, de \in BOOLEAN}
    \cup {[form |-> "compare", fn |-> "std::less"]}

\* val::distinct(begin, end)
Distinct ==
    /\ result.op = "none"
    /\ \E begin \in 0 .. Len(sequence), beyond \in Beyond :
         \E end \in begin .. Len(sequence) :
           result' = [op |-> "distinct", begin |-> begin, end |-> end,
                      arg |-> <<>>,
                      out |-> distinct(sequence, begin, end, beyond)]
    /\ UNCHANGED <<lhs, rhs, sequence, reader_vars, ownership>>

\* val::sorted(begin, end, strict, decreasing) and
\* val::sorted(begin, end, compare)
Sorted ==
    /\ result.op = "none"
    /\ \E begin \in 0 .. Len(sequence), C \in Comparators, beyond \in Beyond :
         \E end \in begin .. Len(sequence) :
           result' = [op |-> "sorted", begin |-> begin, end |-> end, arg |-> C,
                      out |-> sorted(sequence, begin, end, C, beyond)]
    /\ UNCHANGED <<lhs, rhs, sequence, reader_vars, ownership>>

\* ASSERT(f): the result of the check is looked at and dropped at the end of
\* the macro's block, before the next check is made.
Asserted ==
    /\ result.op # "none"
    /\ result' = [op |-> "none", value |-> ValidationResult]
    /\ UNCHANGED <<lhs, rhs, sequence, reader_vars, ownership>>

InitSeq ==
    /\ ReaderIdle
    /\ lhs = ValidationResult
    /\ rhs = ValidationResult
    /\ result = [op |-> "none", value |-> ValidationResult]
    /\ sequence \in Sequences

NextSeq ==
    \/ All
    \/ Distinct
    \/ Sorted
    \/ Asserted

SpecSeq == InitSeq /\ [][NextSeq]_vars

---------------------------------------------------------------------------
(* A strict validator: read_integer<unsigned T>; must_be_space;            *)
(* read_integer<unsigned T>; must_be_newline; must_be_eof.  pc counts the  *)
(* calls that have returned; an exception leaves the validator, so no      *)
(* call follows one that threw.                                            *)

Step(k, op, ty, r) ==
    /\ pc = k
    /\ last.kind = "ok"
    /\ Call(op, ty, r)
    /\ pc' = IF r.kind = "ok" THEN pc + 1 ELSE pc

ValidateReadFirst ==
    Step(0, "read_integer", TypeName(UnsignedT),
         read_integer(source, pos, strict, leading_zeros, UnsignedT))

ValidateSpace == Step(1, "must_be_space", "", must_be_space(source, pos))

ValidateReadSecond ==
    Step(2, "read_integer", TypeName(UnsignedT),
         read_integer(source, pos, strict, leading_zeros, UnsignedT))

ValidateNewline == Step(3, "must_be_newline", "", must_be_newline(source, pos))

ValidateEof == Step(4, "must_be_eof", "", must_be_eof(source, pos))

\* auto r = io::Reader(input_file, /* strict */ true);
InitValidate == \E s \in StringsUpTo(FileAlphabet, MaxFileLen) : Reader(s, TRUE)

NextValidate ==
    \/ ValidateReadFirst
    \/ ValidateSpace
    \/ ValidateReadSecond
    \/ ValidateNewline
    \/ ValidateEof

SpecValidate == InitValidate /\ [][NextValidate]_vars

---------------------------------------------------------------------------
(* Writer::write_integer followed by a Reader on the text written.         *)

\* *dest << x, for an integer type that is not a character type
write_integer(x) ==
    IF x < 0 THEN <<"-">> \o decimal_digits(0 - x) ELSE decimal_digits(x)

ValuesOf(T) == numeric_limits_min(T) .. numeric_limits_max(T)

WriteInteger(T, x) ==
    /\ last.op = "none"
    /\ dest = <<>>
    /\ dest' = dest \o write_integer(x)
    /\ last' = [NoOp EXCEPT !.op = "write_integer", !.ty = TypeName(T),
                            !.val = x]
    /\ UNCHANGED <<source, pos, strict, leading_zeros, decimal_separator, pc>>
    /\ UNCHANGED <<ownership, validation>>

\* reader.with_string_stream(text written)
WithStringStream(s) ==
    /\ source' = s
    /\ pos' = 0
    /\ last' = [NoOp EXCEPT !.op = "with_string_stream"]
    /\ heap' = Append(default_delete(heap, source_ptr), Stream("string"))
    /\ source_ptr' = Len(heap) + 1
    /\ UNCHANGED <<strict, leading_zeros, decimal_separator, pc, dest, destroyed>>
    /\ UNCHANGED validation

ReopenWritten ==
    /\ last.op = "write_integer"
    /\ WithStringStream(dest)

InitRoundTrip == \E st \in BOOLEAN : Reader(<<>>, st)

NextRoundTrip ==
    \/ \E T \in IntTypes : \E x \in ValuesOf(T) : WriteInteger(T, x)
    \/ ReopenWritten
    \/ \E T \in IntTypes : source # <<>> /\ ReadInteger(T)
    \/ WithLeadingZeros
    \/ WithoutLeadingZeros

SpecRoundTrip == InitRoundTrip /\ [][NextRoundTrip]_vars

---------------------------------------------------------------------------
(* Vocabulary of the properties: tokens described on the input text,       *)
(* independently of the readers above.                                     *)

Separators == {" ", "\t", "\r", "\n"}

AllDigits(d) == \A i \in 1 .. Len(d) : d[i] \in Digits

\* The number a digit run denotes.
RECURSIVE NumeralValue(_)
NumeralValue(d) ==
    IF d = <<>> THEN 0
    ELSE 10 * NumeralValue(SubSeq(d, 1, Len(d) - 1)) + DigitVal(d[Len(d)])

\* A digit run with no superfluous leading zero.
CanonicalNumeral(d) ==
    Len(d) >= 1 /\ AllDigits(d) /\ (Len(d) = 1 \/ d[1] # "0")

\* The length of the longest run of bytes of the set C that starts right
\* after the first p bytes of s.
RunLen(s, p, C) ==
    CHOOSE k \in 0 .. (Len(s) - p) :
        /\ \A i \in 1 .. k : s[p + i] \in C
        /\ (p + k = Len(s) \/ s[p + k + 1] \notin C)

TypeOf(name) == IF name = "signed" THEN SignedT ELSE UnsignedT

\* Where the token of a number read starts: at the cursor in strict mode,
\* at the first digit or '-' from the cursor on in lenient mode.
NumberStart(s, p, st) ==
    IF st THEN p ELSE p + RunLen(s, p, AllChars \ (Digits \cup {"-"}))

\* The integer token that starts after the first q bytes of s, read as T:
\* an optional '-' (signed T only), then the longest digit run.
IntToken(s, q, T) ==
    LET neg == T.signed /\ q < Len(s) /\ s[q + 1] = "-"
        d0  == IF neg THEN q + 1 ELSE q
        k   == RunLen(s, d0, Digits)
        run == SubSeq(s, d0 + 1, d0 + k)
    IN  [neg |-> neg, first |-> d0, len |-> k, stop |-> d0 + k,
         value |-> IF neg THEN 0 - NumeralValue(run) ELSE NumeralValue(run),
         leadingZero |-> k >= 2 /\ run[1] = "0"]

InRange(v, T) == numeric_limits_min(T) <= v /\ v <= numeric_limits_max(T)

---------------------------------------------------------------------------
(* C1.  In strict mode with leading zeros disallowed, the sequence         *)
(* read_integer<unsigned T>; must_be_space; read_integer<unsigned T>;      *)
(* must_be_newline; must_be_eof completes without raising if and only if   *)
(* the whole input is a canonical numeral in T's range, one space, a       *)
(* canonical numeral in T's range, then "\n" or "\r\n", and nothing else.  *)

RangedNumeral(d, T) ==
    CanonicalNumeral(d) /\ NumeralValue(d) <= numeric_limits_max(T)

TwoNumbersLine(s, T) ==
    \E i \in 1 .. Len(s) : \E j \in (i + 1) .. Len(s) :
        /\ RangedNumeral(SubSeq(s, 1, i - 1), T)
        /\ s[i] = " "
        /\ RangedNumeral(SubSeq(s, i + 1, j - 1), T)
        /\ SubSeq(s, j, Len(s)) \in {<<"\n">>, <<"\r", "\n">>}

\* C1: the validator ends with all five calls returned exactly on the
\* inputs of the grammar, and with an exception on every other input; a
\* run that has neither completed nor raised can always take its next call.
C1_StrictGrammar ==
    /\ strict /\ ~leading_zeros
    /\ (pc = 5) => TwoNumbersLine(source, UnsignedT)
    /\ (last.kind # "ok") => ~TwoNumbersLine(source, UnsignedT)
    /\ (pc < 5 /\ last.kind = "ok") => ENABLED NextValidate

\* An input ending in "\r\n" on which all five calls returned.
C1_Witness ==
    /\ pc = 5
    /\ Len(source) = 5
    /\ SubSeq(source, 4, 5) = <<"\r", "\n">>

\* The floating-point token that starts after the first q bytes of s: an
\* optional '-', a digit run, and optionally '.' and a second digit run.
FloatToken(s, q) ==
    LET neg    == q < Len(s) /\ s[q + 1] = "-"
        d0     == IF neg THEN q + 1 ELSE q
        k1     == RunLen(s, d0, Digits)
        hasDot == d0 + k1 < Len(s) /\ s[d0 + k1 + 1] = "."
        k2     == IF hasDot THEN RunLen(s, d0 + k1 + 1, Digits) ELSE 0
        stop   == IF hasDot THEN d0 + k1 + 1 + k2 ELSE d0 + k1
    IN  [first |-> d0, len |-> k1, stop |-> stop,
         text |-> SubSeq(s, q + 1, stop),
         leadingZero |-> k1 >= 2 /\ s[d0 + 1] = "0",
         wellFormed |-> /\ k1 >= 1
                        /\ hasDot => k2 >= 1
                        /\ (stop = Len(s) \/ s[stop + 1] \notin {"-", "."})]

\* An integer token the leading-zero policy admits and T can represent.
Admitted(tk, T, lz) ==
    tk.len >= 1 /\ (lz \/ ~tk.leadingZero) /\ InRange(tk.value, T)

---------------------------------------------------------------------------
(* C2.  In strict mode no read operation skips input: with a separator at  *)
(* the cursor, read_integer, read_floating_point and read_string each fail *)
(* with UnexpectedReadException; in lenient mode the same calls skip the   *)
(* leading separators and return the token that follows them.              *)

\* C2: a read called with the cursor on a separator throws
\* UnexpectedReadException when strict; when lenient it returns the token
\* that starts after the run of separators (the string up to the next
\* separator, the integer or floating-point numeral that starts there) and
\* leaves the cursor after it, and read_string throws EOFException when only
\* separators remain.
C2_StrictNeverSkips ==
    LET p0 == last.pos0
        q  == p0 + RunLen(source, p0, Separators)
    IN  (/\ last.op \in {"read_integer", "read_floating_point", "read_string"}
         /\ p0 < Len(source)
         /\ source[p0 + 1] \in Separators)
        => IF strict THEN last.kind = UnexpectedReadException
           ELSE CASE last.op = "read_string" ->
                       LET n == RunLen(source, q, AllChars \ Separators)
                       IN  IF q = Len(source) THEN last.kind = EOFException
                           ELSE /\ last.kind = "ok"
                                /\ last.tok = SubSeq(source, q + 1, q + n)
                                /\ pos = q + n
                  [] last.op = "read_integer" ->
                       LET T  == TypeOf(last.ty)
                           tk == IntToken(source, q, T)
                       IN  Admitted(tk, T, leading_zeros)
                           => /\ last.kind = "ok"
                              /\ last.val = tk.value
                              /\ pos = tk.stop
                  [] last.op = "read_floating_point" ->
                       LET tk == FloatToken(source, q)
                       IN  (tk.wellFormed /\ (leading_zeros \/ ~tk.leadingZero))
                           => /\ last.kind = "ok"
                              /\ last.tok = tk.text
                              /\ pos = tk.stop

\* A lenient read_integer that skipped two separators and returned -1.
C2_Witness ==
    /\ ~strict
    /\ last.op = "read_integer"
    /\ last.pos0 = 0
    /\ source = <<"\t", "-", "1">>
    /\ last.kind = "ok"
    /\ last.val = 0 - 1

---------------------------------------------------------------------------
(* C3.  For a token made of an optional '-' (signed T only) and a digit    *)
(* run denoting v, read_integer<T> returns exactly v when v is in T's      *)
(* range and throws OverflowException when it is not; it never returns a   *)
(* wrapped or truncated value.                                             *)

\* C3: on every integer token, a value returned is the value v the token
\* denotes and lies in T's range, and no value is returned when v is outside
\* the range; when the leading-zero policy admits the token (the flag is
\* set, or the digit run has no superfluous leading zero) the call returns v
\* if v is in range and throws OverflowException if it is not.
C3_ExactOrOverflow ==
    LET T  == TypeOf(last.ty)
        tk == IntToken(source, NumberStart(source, last.pos0, strict), T)
    IN  (last.op = "read_integer" /\ tk.len >= 1)
        => /\ last.kind = "ok" => (last.val = tk.value /\ InRange(tk.value, T))
           /\ ~InRange(tk.value, T) => last.kind # "ok"
           /\ (leading_zeros \/ ~tk.leadingZero)
              => IF InRange(tk.value, T)
                 THEN last.kind = "ok" /\ last.val = tk.value
                 ELSE last.kind = OverflowException

\* The token for 2^(w-1) read as a signed type: OverflowException.
C3_Witness ==
    /\ last.op = "read_integer"
    /\ last.ty = "signed"
    /\ last.pos0 = 0
    /\ source = write_integer(Pow2(Width - 1))
    /\ last.kind = OverflowException

---------------------------------------------------------------------------
(* C4.  Round trip: for every integer n in the range of T, writing n as    *)
(* decimal text and reading that text back with read_integer<T>, strict or *)
(* lenient, with the leading-zeros flag set or unset, returns exactly n.   *)

\* C4: whenever read_integer<T> has read, from its start, a text that
\* write_integer produces for a value x of T, it has returned x without
\* throwing and has consumed the whole text.
C4_RoundTrip ==
    (last.op = "read_integer" /\ last.pos0 = 0)
    => \A x \in ValuesOf(TypeOf(last.ty)) :
           source = write_integer(x)
           => /\ last.kind = "ok"
              /\ last.val = x
              /\ pos = Len(source)

\* The minimum of the signed type, written and read back in lenient mode
\* with the leading-zeros flag set.
C4_Witness ==
    /\ last.op = "read_integer"
    /\ last.ty = "signed"
    /\ dest = write_integer(numeric_limits_min(SignedT))
    /\ source = dest
    /\ ~strict
    /\ leading_zeros
    /\ last.kind = "ok"
    /\ last.val = numeric_limits_min(SignedT)

---------------------------------------------------------------------------
(* C5.  Leading-zero policy: with the flag unset, read_integer and         *)
(* read_floating_point throw UnexpectedReadException on every numeral      *)
(* whose integer-part digit run has more than one digit and starts with    *)
(* '0' (with or without a leading '-'); the single digit "0" is always     *)
(* accepted; with the flag set by with_leading_zeros() the same numerals   *)
(* are accepted, and after without_leading_zeros() they are rejected       *)
(* again.                                                                  *)

\* C5: in every reachable state, whatever setters were called before, a
\* number read whose token has an integer part of two or more digits that
\* starts with '0' has thrown UnexpectedReadException if the flag is unset;
\* if the flag is set it has not thrown UnexpectedReadException for an
\* integer (it returned the value, or threw OverflowException for a value T
\* cannot hold) and has returned the text of a well-formed floating-point
\* numeral; the numeral "0" or "-0" is returned as 0 under either flag.
C5_LeadingZeroPolicy ==
    LET q == NumberStart(source, last.pos0, strict)
    IN  /\ last.op = "read_integer"
           => LET T  == TypeOf(last.ty)
                  tk == IntToken(source, q, T)
              IN  /\ (tk.leadingZero /\ ~leading_zeros)
                     => last.kind = UnexpectedReadException
                  /\ (tk.leadingZero /\ leading_zeros)
                     => IF InRange(tk.value, T)
                        THEN last.kind = "ok" /\ last.val = tk.value
                        ELSE last.kind = OverflowException
                  /\ (tk.len = 1 /\ source[tk.first + 1] = "0")
                     => last.kind = "ok" /\ last.val = 0
        /\ last.op = "read_floating_point"
           => LET tk == FloatToken(source, q)
              IN  /\ (tk.leadingZero /\ ~leading_zeros)
                     => last.kind = UnexpectedReadException
                  /\ (tk.leadingZero /\ leading_zeros /\ tk.wellFormed)
                     => last.kind = "ok" /\ last.tok = tk.text
                  /\ (tk.wellFormed /\ tk.text \in {<<"0">>, <<"-", "0">>})
                     => last.kind = "ok" /\ last.tok = tk.text

\* "-01" read as a signed integer with the flag set: -1.
C5_Witness ==
    /\ last.op = "read_integer"
    /\ last.ty = "signed"
    /\ last.pos0 = 0
    /\ source = <<"-", "0", "1">>
    /\ leading_zeros
    /\ last.kind = "ok"
    /\ last.val = 0 - 1

---------------------------------------------------------------------------
(* C6.  Sign policy of read_integer: a '-' is accepted only as the first   *)
(* byte of a token of a signed type.                                       *)

\* The sign cases of a read_integer call: a second '-' right after the
\* first, a '-' right after the digits of the token, a '-' at the start of
\* a token read as an unsigned type.
SecondMinus(s, q, T)   == T.signed /\ q + 1 < Len(s) /\ s[q + 1] = "-" /\ s[q + 2] = "-"
MinusAfterDigits(s, tk) == tk.len >= 1 /\ tk.stop < Len(s) /\ s[tk.stop + 1] = "-"
MinusUnsigned(s, q, T) == ~T.signed /\ q < Len(s) /\ s[q + 1] = "-"

\* C6 as claimed: each of the three cases makes read_integer throw
\* UnexpectedReadException.
C6_AsClaimed ==
    LET T  == TypeOf(last.ty)
        q  == NumberStart(source, last.pos0, strict)
        tk == IntToken(source, q, T)
    IN  last.op = "read_integer"
        => /\ SecondMinus(source, q, T) => last.kind = UnexpectedReadException
           /\ MinusAfterDigits(source, tk) => last.kind = UnexpectedReadException
           /\ MinusUnsigned(source, q, T) => last.kind = UnexpectedReadException

\* C6, amended: a second '-' right after the first and a '-' at the start of
\* a token read as an unsigned type make read_integer throw
\* UnexpectedReadException; a '-' after one or more digits ends the token
\* like any other non-digit byte: it is not consumed, the call returns the
\* value of the digits when the leading-zero policy admits them and T holds
\* the value, and it throws UnexpectedReadException only for a rejected
\* leading zero.
C6_SignPolicy ==
    LET T  == TypeOf(last.ty)
        q  == NumberStart(source, last.pos0, strict)
        tk == IntToken(source, q, T)
    IN  last.op = "read_integer"
        => /\ SecondMinus(source, q, T) => last.kind = UnexpectedReadException
           /\ MinusUnsigned(source, q, T) => last.kind = UnexpectedReadException
           /\ MinusAfterDigits(source, tk)
              => /\ pos <= tk.stop
                 /\ Admitted(tk, T, leading_zeros)
                    => /\ last.kind = "ok"
                       /\ last.val = tk.value
                       /\ pos = tk.stop
                 /\ last.kind = UnexpectedReadException
                    => (tk.leadingZero /\ ~leading_zeros)

\* "1-2" read from its start: 1 is returned and the cursor is on the '-'.
C6_Witness ==
    /\ last.op = "read_integer"
    /\ last.pos0 = 0
    /\ source = <<"1", "-", "2">>
    /\ last.kind = "ok"
    /\ last.val = 1
    /\ pos = 1

---------------------------------------------------------------------------
(* C7.  Token termination with pushback: when read_integer has read at     *)
(* least one digit and the next byte b is not a digit, the call returns    *)
(* the value of the digits and b is not consumed, so the operation called  *)
(* next sees b as its first byte.                                          *)

\* C7: for an integer token whose digit run is followed by a byte b,
\* read_integer never moves the cursor past b; a call that returns has
\* returned the value of the digit run and left the cursor on b, so that
\* read_char called next returns b, must_be_space succeeds exactly when b
\* is a space and must_be_newline fails unless b is CR or LF; and the call
\* does return whenever the token passes the leading-zero and range checks.
C7_Pushback ==
    LET T  == TypeOf(last.ty)
        tk == IntToken(source, NumberStart(source, last.pos0, strict), T)
        b  == source[tk.stop + 1]
    IN  (last.op = "read_integer" /\ tk.len >= 1 /\ tk.stop < Len(source))
        => /\ pos <= tk.stop
           /\ Admitted(tk, T, leading_zeros) => last.kind = "ok"
           /\ last.kind = "ok"
              => /\ last.val = tk.value
                 /\ pos = tk.stop
                 /\ read_char(source, pos).kind = "ok"
                 /\ read_char(source, pos).tok = <<b>>
                 /\ (must_be_space(source, pos).kind = "ok") <=> (b = " ")
                 /\ (must_be_newline(source, pos).kind = "ok")
                    => b \in {"\r", "\n"}

\* "11" followed by a line feed, read as an unsigned integer.
C7_Witness ==
    /\ last.op = "read_integer"
    /\ last.ty = "unsigned"
    /\ last.pos0 = 0
    /\ source = <<"1", "1", "\n">>
    /\ last.kind = "ok"
    /\ last.val = 11
    /\ pos = 2

---------------------------------------------------------------------------
(* C8.  End of input during read_integer: if the input ends after at least *)
(* one digit of the token, read_integer returns the value and a following  *)
(* must_be_eof succeeds; if the input ends before any digit was read       *)
(* (nothing is left, or only a '-' for a signed type), it throws           *)
(* EOFException.                                                           *)

\* C8: for a token whose digit run reaches the end of the input,
\* read_integer never throws EOFException, a call that returns has returned
\* the value of the run with the cursor at the end, where must_be_eof
\* succeeds, and the call does return whenever the token passes the
\* leading-zero and range checks; when the input ends where the first digit
\* should be, the call throws EOFException.
C8_EndOfInput ==
    LET T  == TypeOf(last.ty)
        tk == IntToken(source, NumberStart(source, last.pos0, strict), T)
    IN  last.op = "read_integer"
        => /\ (tk.len >= 1 /\ tk.stop = Len(source))
              => /\ last.kind # EOFException
                 /\ Admitted(tk, T, leading_zeros) => last.kind = "ok"
                 /\ last.kind = "ok"
                    => /\ last.val = tk.value
                       /\ pos = Len(source)
                       /\ must_be_eof(source, pos).kind = "ok"
           /\ (tk.len = 0 /\ tk.first = Len(source))
              => last.kind = EOFException

\* "-1" at the end of the input, read as a signed integer.
C8_Witness ==
    /\ last.op = "read_integer"
    /\ last.ty = "signed"
    /\ source = <<"a", "-", "1">>
    /\ last.kind = "ok"
    /\ last.val = 0 - 1
    /\ pos = Len(source)

---------------------------------------------------------------------------
(* C9.  Lenient read_integer on an input that contains no digit at all.    *)

\* An input without any digit, read in lenient mode.
NoDigitLenientRead ==
    /\ last.op = "read_integer"
    /\ ~strict
    /\ \A i \in 1..Len(source) : ~is_numeric(source[i])

\* C9: lenient read_integer on an input without any digit throws
\* EOFException, whatever other bytes the input contains.
C9_AsClaimed == NoDigitLenientRead => last.kind = EOFException

---------------------------------------------------------------------------
(* C10.  must_be_space and must_be_newline.                                *)

\* C10: must_be_space returns iff the byte at the cursor is a space, and
\* then the cursor has moved by that one byte; must_be_newline returns iff
\* the bytes at the cursor are LF or CR LF, and then the cursor has moved
\* by exactly those bytes; a byte read that does not match (any other byte
\* for must_be_space; a byte other than CR and LF, or the byte other than
\* LF after a CR, for must_be_newline) makes the call throw
\* UnexpectedReadException.
C10_Separators ==
    LET p0   == last.pos0
        more == p0 < Len(source)
        two  == p0 + 1 < Len(source)
        lf   == more /\ source[p0 + 1] = "\n"
        crlf == two /\ source[p0 + 1] = "\r" /\ source[p0 + 2] = "\n"
    IN  /\ last.op = "must_be_space"
           => /\ (last.kind = "ok") <=> (more /\ source[p0 + 1] = " ")
              /\ last.kind = "ok" => pos = p0 + 1
              /\ (more /\ source[p0 + 1] # " ")
                 => last.kind = UnexpectedReadException
        /\ last.op = "must_be_newline"
           => /\ (last.kind = "ok") <=> (lf \/ crlf)
              /\ lf => pos = p0 + 1
              /\ crlf => pos = p0 + 2
              /\ (more /\ source[p0 + 1] \notin {"\r", "\n"})
                 => last.kind = UnexpectedReadException
              /\ (two /\ source[p0 + 1] = "\r" /\ source[p0 + 2] # "\n")
                 => last.kind = UnexpectedReadException

\* must_be_newline has consumed a CR LF pair.
C10_Witness ==
    /\ last.op = "must_be_newline"
    /\ last.kind = "ok"
    /\ pos = last.pos0 + 2
    /\ source[last.pos0 + 1] = "\r"

---------------------------------------------------------------------------
(* C11.  must_be_eof succeeds iff no byte remains after the cursor and     *)
(* otherwise throws UnexpectedReadException("EOF"); it consumes nothing.   *)

\* C11: must_be_eof returns iff the cursor is at the end of the input and
\* throws UnexpectedReadException naming "EOF" otherwise; in both cases the
\* cursor stays where it was, so the next read_char gives what it would
\* have given before the call and a repeated must_be_eof has the same
\* outcome.
C11_MustBeEof ==
    last.op = "must_be_eof"
    => /\ (last.kind = "ok") <=> (last.pos0 = Len(source))
       /\ last.pos0 < Len(source)
          => (last.kind = UnexpectedReadException /\ last.tok = <<"EOF">>)
       /\ pos = last.pos0
       /\ read_char(source, pos) = read_char(source, last.pos0)
       /\ must_be_eof(source, pos).kind = last.kind
       /\ must_be_eof(source, pos).pos = pos

\* must_be_eof has failed with a byte left, which read_char still returns.
C11_Witness ==
    /\ last.op = "must_be_eof"
    /\ last.kind = UnexpectedReadException
    /\ pos + 1 = Len(source)
    /\ read_char(source, pos).tok = <<source[Len(source)]>>

---------------------------------------------------------------------------
(* C12.  skip_spaces and skip_non_numeric never throw: they leave the      *)
(* cursor on the first byte that is not a separator, respectively the      *)
(* first digit or '-', or at the end of the input when there is none.      *)

\* C12: skip_spaces returns with the cursor moved over exactly the run of
\* separators at the cursor, skip_non_numeric with the cursor moved over
\* exactly the run of bytes that are neither a digit nor '-'; the byte the
\* run stops at is not consumed (read_char returns it), the cursor is at
\* the end of the input when no such byte exists, and a call with the
\* cursor already on such a byte consumes nothing.
C12_Skips ==
    LET p0   == last.pos0
        stop == IF last.op = "skip_spaces" THEN AllChars \ Separators
                ELSE Digits \cup {"-"}
    IN  last.op \in {"skip_spaces", "skip_non_numeric"}
        => /\ last.kind = "ok"
           /\ pos = p0 + RunLen(source, p0, AllChars \ stop)
           /\ \A i \in (p0 + 1) .. pos : source[i] \notin stop
           /\ pos < Len(source)
              => /\ source[pos + 1] \in stop
                 /\ read_char(source, pos).tok = <<source[pos + 1]>>
           /\ (\A i \in (p0 + 1) .. Len(source) : source[i] \notin stop)
              => pos = Len(source)
           /\ (p0 < Len(source) /\ source[p0 + 1] \in stop) => pos = p0

\* skip_non_numeric has skipped a letter and a space and stopped on a '-'.
C12_Witness ==
    /\ last.op = "skip_non_numeric"
    /\ last.pos0 = 0
    /\ source = <<"a", " ", "-">>
    /\ pos = 2

---------------------------------------------------------------------------
(* C13.  Length bounds of read_string(min_len, max_len): a run of L >= 1   *)
(* non-separator bytes is returned iff min_len <= L <= max_len and gives   *)
(* FailedValidationException otherwise; read_string(k), k > 0, is the case *)
(* min_len = max_len = k.                                                  *)

\* Where the string of a read starts: at the cursor in strict mode, after
\* the separators at the cursor in lenient mode.
StringStart(s, p, st) == IF st THEN p ELSE p + RunLen(s, p, Separators)

\* max_length as a number: npos is larger than every length.
WithinMax(L, mx) == mx = npos \/ L <= mx

\* C13: when the run of non-separator bytes where the string starts has
\* length L >= 1 and no check is given, read_string(min_len, max_len)
\* returns the whole run, with the cursor on the byte after it, iff
\* min_len <= L <= max_len (whether the run is ended by a separator or by
\* the end of the input) and throws FailedValidationException otherwise;
\* read_string(k) with k > 0 does what read_string(k, k) does.
C13_LengthBounds ==
    LET a  == last.ty
        q  == StringStart(source, last.pos0, strict)
        L  == RunLen(source, q, AllChars \ Separators)
        ok == a.min <= L /\ WithinMax(L, a.max)
    IN  /\ (last.op = "read_string" /\ a.check = "any" /\ L >= 1)
           => /\ (last.kind = "ok") <=> ok
              /\ ok => (last.tok = SubSeq(source, q + 1, q + L) /\ pos = q + L)
              /\ ~ok => last.kind = FailedValidationException
        /\ (last.op = "read_string_exact" /\ a.min > 0)
           => /\ (L >= 1) => ((last.kind = "ok") <=> (L = a.min))
              /\ (L >= 1 /\ L # a.min) => last.kind = FailedValidationException
              /\ last.kind = read_string(source, last.pos0, strict,
                                         always_true(source), a.min, a.min).kind
              /\ pos = read_string(source, last.pos0, strict,
                                   always_true(source), a.min, a.min).pos

\* A run of exactly max_len bytes that the end of the input ends.
C13_Witness ==
    /\ last.op = "read_string"
    /\ last.ty = [check |-> "any", min |-> 1, max |-> 2]
    /\ source = <<" ", "a", "b">>
    /\ last.kind = "ok"
    /\ last.tok = <<"a", "b">>

---------------------------------------------------------------------------
(* C14.  Failure kinds of read_string(check, min_len, max_len).            *)

\* C14: in strict mode a separator at the cursor gives
\* UnexpectedReadException; the end of the input where the string should
\* start (in lenient mode: after the separators) gives EOFException; the
\* first byte of the run, at an index i below max_len, that the check
\* rejects gives FailedValidationException naming that byte and position
\* i; a returned string passes the check at every index and holds no
\* separator.
C14_FailureKinds ==
    LET a  == last.ty
        p0 == last.pos0
        q  == StringStart(source, p0, strict)
        L  == RunLen(source, q, AllChars \ Separators)
        ck == CheckChar(a.check, source)
        rejected(i) == ~ck[<<i, source[q + i + 1]>>]
    IN  last.op = "read_string"
        => /\ (strict /\ p0 < Len(source) /\ source[p0 + 1] \in Separators)
              => last.kind = UnexpectedReadException
           /\ q = Len(source) => last.kind = EOFException
           /\ \A i \in 0 .. (L - 1) :
                 (/\ a.max = npos \/ i < a.max
                  /\ rejected(i)
                  /\ \A j \in 0 .. (i - 1) : ~rejected(j))
                 => /\ last.kind = FailedValidationException
                    /\ last.val = i
                    /\ last.tok = <<source[q + i + 1]>>
           /\ last.kind = "ok"
              => \A i \in 1 .. Len(last.tok) :
                    /\ ck[<<i - 1, last.tok[i]>>]
                    /\ last.tok[i] \notin Separators

\* "aab" read with the check that allows 'b' at index 1 only.
C14_Witness ==
    /\ last.op = "read_string"
    /\ last.ty = [check |-> "index", min |-> 0, max |-> npos]
    /\ last.pos0 = 0
    /\ source = <<"a", "a", "b">>
    /\ last.kind = FailedValidationException
    /\ last.val = 2

---------------------------------------------------------------------------
(* C15.  read_constant(token): InvalidArgumentException for an empty       *)
(* token; otherwise exactly len(token) bytes are read, with no skipping,   *)
(* and token is returned iff they equal it.                                *)

\* C15: read_constant throws InvalidArgumentException for the empty token
\* and leaves the cursor alone; for any other token, in either mode, it
\* throws EOFException when fewer than len(token) bytes remain, and
\* otherwise moves the cursor by exactly len(token) bytes, returns token
\* when those bytes (separators included) equal it and throws
\* UnexpectedReadException when they differ.
C15_ReadConstant ==
    LET token == last.ty
        n     == Len(token)
        p0    == last.pos0
    IN  last.op = "read_constant"
        => IF n = 0
           THEN last.kind = InvalidArgumentException /\ pos = p0
           ELSE IF Len(source) - p0 < n
           THEN last.kind = EOFException
           ELSE /\ pos = p0 + n
                /\ IF SubSeq(source, p0 + 1, p0 + n) = token
                   THEN last.kind = "ok" /\ last.tok = token
                   ELSE last.kind = UnexpectedReadException

\* " b" compared with "ab" in lenient mode: a mismatch, both bytes consumed.
C15_Witness ==
    /\ last.op = "read_constant"
    /\ ~strict
    /\ last.ty = <<"a", "b">>
    /\ last.pos0 = 0
    /\ source = <<" ", "b", "a">>
    /\ last.kind = UnexpectedReadException
    /\ pos = 2

---------------------------------------------------------------------------
(* C16.  read_any_of(candidates): InvalidArgumentException for an empty    *)
(* list or an empty candidate; otherwise the next token is returned iff it *)
(* is a candidate.                                                         *)

\* C16: read_any_of throws InvalidArgumentException, with the cursor left
\* alone, when the list is empty or holds an empty candidate; otherwise it
\* returns the token at the start of the string iff the token is one of
\* the candidates, throws UnexpectedReadException for a token that is no
\* candidate and whose length lies between the shortest and the longest
\* candidate length, FailedValidationException for a token whose length
\* lies outside, and EOFException when the input ends where the token
\* should start.
C16_ReadAnyOf ==
    LET tokens == last.ty
        p0     == last.pos0
        lens   == {Len(tokens[k]) : k \in 1 .. Len(tokens)}
        cands  == {tokens[k] : k \in 1 .. Len(tokens)}
        q      == StringStart(source, p0, strict)
        L      == RunLen(source, q, AllChars \ Separators)
        token  == SubSeq(source, q + 1, q + L)
    IN  last.op = "read_any_of"
        => IF tokens = <<>> \/ 0 \in lens
           THEN last.kind = InvalidArgumentException /\ pos = p0
           ELSE /\ (last.kind = "ok") <=> (L >= 1 /\ token \in cands)
                /\ last.kind = "ok" => (last.tok = token /\ pos = q + L)
                /\ q = Len(source) => last.kind = EOFException
                /\ (L >= 1 /\ token \notin cands)
                   => IF /\ \E n \in lens : n <= L
                         /\ \E n \in lens : L <= n
                      THEN last.kind = UnexpectedReadException
                      ELSE last.kind = FailedValidationException

\* "ba" is as long as the candidate "ab" and is no candidate.
C16_Witness ==
    /\ last.op = "read_any_of"
    /\ last.ty = <<(<<"a", "b">>), (<<"a">>)>>
    /\ source = <<"b", "a">>
    /\ last.kind = UnexpectedReadException

---------------------------------------------------------------------------
(* C17.  Decimal-separator rule of read_floating_point: a token with a     *)
(* second separator, a separator with no digit before it or a separator    *)
(* with no digit after it makes the call throw, whatever ends the token; a *)
(* second '-' or a '-' after the first character gives                     *)
(* UnexpectedReadException.                                                *)

\* The shape of the floating-point token that starts after the first q
\* bytes of s: an optional '-', a digit run, and, when the separator dsep
\* follows, a second digit run.
FloatShape(s, q, dsep) ==
    LET neg    == q < Len(s) /\ s[q + 1] = "-"
        d0     == IF neg THEN q + 1 ELSE q
        k1     == RunLen(s, d0, Digits)
        hasSep == d0 + k1 < Len(s) /\ s[d0 + k1 + 1] = dsep
        k2     == IF hasSep THEN RunLen(s, d0 + k1 + 1, Digits) ELSE 0
        stop   == IF hasSep THEN d0 + k1 + 1 + k2 ELSE d0 + k1
    IN  [neg |-> neg, first |-> d0, len |-> k1, hasSep |-> hasSep,
         frac |-> k2, stop |-> stop,
         leadingZero |-> k1 >= 2 /\ s[d0 + 1] = "0"]

\* The token starts where a number can start.
AtNumber(s, q, dsep) ==
    q < Len(s) /\ (s[q + 1] \in Digits \cup {"-", dsep})

\* C17: read_floating_point throws when the token has a separator with no
\* digit before it, a separator with no digit after it (whatever byte, or
\* the end of the input, comes next) or a second separator, and throws
\* UnexpectedReadException when a '-' follows the first byte of the token.
C17_SeparatorRule ==
    LET q  == NumberStart(source, last.pos0, strict)
        sh == FloatShape(source, q, decimal_separator)
    IN  (last.op = "read_floating_point" /\ AtNumber(source, q, decimal_separator))
        => /\ (sh.hasSep /\ sh.len = 0) => last.kind # "ok"
           /\ (sh.hasSep /\ sh.len >= 1 /\ sh.frac = 0) => last.kind # "ok"
           /\ (/\ sh.hasSep /\ sh.len >= 1 /\ sh.frac >= 1
               /\ sh.stop < Len(source)
               /\ source[sh.stop + 1] = decimal_separator)
              => last.kind # "ok"
           /\ (/\ sh.neg \/ sh.len >= 1
               /\ sh.stop > q
               /\ sh.stop < Len(source)
               /\ source[sh.stop + 1] = "-"
               /\ ~(sh.hasSep /\ sh.len = 0))
              => last.kind = UnexpectedReadException

---------------------------------------------------------------------------
(* C18.  End of input during read_floating_point: the call returns iff the *)
(* last byte consumed for the token was a digit and throws EOFException    *)
(* otherwise; the same condition decides when a non-numeric byte ends the  *)
(* token.                                                                  *)

\* The bytes of a token read without an exception up to where it stops: a
\* shape the reader accepts byte by byte (a separator only after a digit,
\* no rejected leading zero).
ReadWithoutThrow(sh, lz) ==
    /\ sh.hasSep => sh.len >= 1
    /\ lz \/ ~sh.leadingZero

\* C18: when the input ends inside a token, read_floating_point returns iff
\* the last byte of the token is a digit and throws EOFException when the
\* token is empty, is only "-" or ends with the separator; when a byte that
\* is neither a digit, '-' nor the separator ends the token, the call
\* returns iff the last byte of the token is a digit.
C18_EndOfToken ==
    LET q  == NumberStart(source, last.pos0, strict)
        sh == FloatShape(source, q, decimal_separator)
        lastIsDigit == sh.stop > q /\ source[sh.stop] \in Digits
    IN  (last.op = "read_floating_point" /\ ReadWithoutThrow(sh, leading_zeros))
        => /\ sh.stop = Len(source)
              => /\ (last.kind = "ok") <=> lastIsDigit
                 /\ ~lastIsDigit => last.kind = EOFException
           /\ (/\ sh.stop < Len(source)
               /\ source[sh.stop + 1] \notin {"-", decimal_separator})
              => ((last.kind = "ok") <=> lastIsDigit)

---------------------------------------------------------------------------
(* C19.  Source ownership: destroying or rebinding a Reader releases the   *)
(* source only when the Reader owns it; a borrowed stream is left alone,   *)
(* and no source is released twice.                                        *)

\* The number of times the stream has been released.
Releases(st) == st.deletes + (IF st.ended THEN 1 ELSE 0)

\* C19: a stream the Reader created (from a file name or by
\* with_string_stream) has been released once it is no longer the Reader's
\* source, a stream borrowed from the caller is never released by the
\* Reader and the program is not aborted by a rebind or a destruction, and
\* no stream is released twice.
C19_Ownership ==
    \A i \in 1 .. Len(heap) :
        /\ (heap[i].origin # "external" /\ source_ptr # i)
           => heap[i].deletes = 1
        /\ heap[i].origin = "external" => heap[i].deletes = 0
        /\ Releases(heap[i]) <= 1
        /\ Running

---------------------------------------------------------------------------
(* C20.  Tag algebra of ValidationResult: every result is either a success *)
(* or a failure; a AND b succeeds iff both do, a OR b iff one does, NOT a  *)
(* has the opposite tag and NOT NOT a the tag of a.                        *)

\* C20: every operand and every result has exactly one of the tags
\* success and failed; the result of && is a success iff both operands
\* are, the result of || iff at least one operand is, the result of ! iff
\* its operand is not, and applying ! to the result of ! gives back the tag
\* of the operand; the operands include results of earlier combinators.
C20_TagAlgebra ==
    LET r == result.value
    IN  /\ \A x \in {lhs, rhs, r} : success(x) # failed(x)
        /\ result.op = "AND" => (success(r) <=> (success(lhs) /\ success(rhs)))
        /\ result.op = "OR" => (success(r) <=> (success(lhs) \/ success(rhs)))
        /\ result.op = "NOT"
           => /\ success(r) <=> failed(lhs)
              /\ success(operator_not(r)) <=> success(lhs)
              /\ failed(operator_not(r)) <=> failed(lhs)

\* An AND of a composite success and a failure.
C20_Witness ==
    /\ result.op = "AND"
    /\ Len(message(lhs)) > 1
    /\ success(lhs)
    /\ failed(rhs)
    /\ failed(result.value)

---------------------------------------------------------------------------
(* C21.  Messages of the combinators: the message of a AND b is the        *)
(* message of a indented by two spaces, a line "AND" and the message of b  *)
(* indented by two spaces (OR likewise); the message of NOT a is a line    *)
(* "NOT" and the indented message of a.                                    *)

\* The message m with every line moved two spaces to the right.
Indented(m) ==
    [k \in 1 .. Len(m) |-> [indent |-> m[k].indent + 1, text |-> m[k].text]]

\* A line of its own, not indented, that reads w.
Word(w) == <<[indent |-> 0, text |-> <<w>>]>>

\* C21: whatever the tags of the operands, the message of the result of &&
\* is the indented message of the left operand, the line "AND" and the
\* indented message of the right operand, the message of the result of ||
\* the same with the line "OR", and the message of the result of ! the
\* line "NOT" and the indented message of its operand.
C21_Messages ==
    LET m == message(result.value)
    IN  /\ result.op = "AND"
           => m = Indented(message(lhs)) \o Word("AND") \o Indented(message(rhs))
        /\ result.op = "OR"
           => m = Indented(message(lhs)) \o Word("OR") \o Indented(message(rhs))
        /\ result.op = "NOT" => m = Word("NOT") \o Indented(message(lhs))

\* An OR that its first operand decides, a success of several lines; the
\* message of the failed second operand is its last line.
C21_Witness ==
    /\ result.op = "OR"
    /\ success(lhs)
    /\ failed(rhs)
    /\ Len(message(lhs)) = 3
    /\ message(result.value)[Len(message(result.value))]
         = [indent |-> 1, text |-> message(rhs)[1].text]
    /\ message(result.value)[2].indent = 2

---------------------------------------------------------------------------
(* C22.  all(sequence, predicate) is success iff the predicate succeeds on *)
(* every element; otherwise it is a failure whose message carries the      *)
(* 0-based index, within the range, of the first failing element, and the  *)
(* predicate is applied to no element after that one.  all_between is this *)
(* with between, which succeeds on x iff low <= x <= high.                 *)

\* What the predicate P is meant to decide about x.
Satisfies(P, x) ==
    IF P.fn = "between" THEN P.low <= x /\ x <= P.high ELSE x # P.cur

\* The 0-based positions, within the range given, of the elements of the
\* range that do not satisfy P.
Failing(s, begin, end, P) ==
    {i \in 0 .. end - begin - 1 : ~Satisfies(P, s[begin + i + 1])}

Least(S) == CHOOSE i \in S : \A j \in S : i <= j

\* C22: all over a range is success iff every element of the range
\* satisfies the predicate (so on the empty range); otherwise it fails, the
\* first line of its message is "Failed check for element i: " followed by
\* the predicate's own message for that element, with i the position in the
\* range of the first element that fails, and the predicate has been
\* applied to the elements of the range up to that one, once each, in
\* order, and to no other.
C22_All ==
    result.op = "all" =>
        LET bad == Failing(sequence, result.begin, result.end, result.arg)
            out == result.out
        IN  /\ out.kind = "return"
            /\ success(out.value) <=> bad = {}
            /\ bad = {} =>
                 out.reads = [k \in 1 .. result.end - result.begin
                                |-> result.begin + k - 1]
            /\ bad # {} =>
                 LET i == Least(bad)
                     m == message(predicate(result.arg,
                                            sequence[result.begin + i + 1]))
                 IN  /\ failed(out.value)
                     /\ message(out.value)[1].text
                          = <<"Failed check for element ">> \o decimal_digits(i)
                            \o <<": ">> \o m[1].text
                     /\ out.reads = [k \in 1 .. i + 1 |-> result.begin + k - 1]
                     /\ failed(predicate(result.arg,
                                         sequence[result.begin + i + 1]))

\* all_between on a range that starts at the second element of the
\* container, whose first element lies in the interval and whose second
\* does not: the message counts it as element 1.
C22_Witness ==
    /\ result.op = "all"
    /\ result.arg.fn = "between"
    /\ result.begin = 1
    /\ result.end = Len(sequence)
    /\ Len(sequence) = 3
    /\ failed(result.out.value)
    /\ result.out.reads = <<1, 2>>
    /\ message(result.out.value)[1].text[2] = "1"

---------------------------------------------------------------------------
(* C23.  distinct(sequence) is a failure iff some value occurs more than   *)
(* once in the sequence, for every sequence of length >= 1 and whatever    *)
(* the order of its elements; it does not modify the caller's sequence,    *)
(* and on failure the value named in the message occurs at least twice.    *)

\* The elements of the range given to the operation performed last.
Range == SubSeq(sequence, result.begin + 1, result.end)

\* How many times x occurs in s.
Occurrences(s, x) == Cardinality({k \in 1 .. Len(s) : s[k] = x})

\* C23: on a range of one element or more, distinct returns, and returns a
\* failure iff two elements of the range are equal; the failure's message
\* is "Elements are not distinct: Multiple occurrences of " followed by the
\* decimal text of a value that occurs twice or more in the range; and the
\* call leaves the caller's container as it was.
C23_Distinct ==
    /\ [](result.op = "distinct" /\ Len(Range) >= 1 =>
            LET out == result.out
                twice == {x \in SeqValues : Occurrences(Range, x) >= 2}
            IN  /\ out.kind = "return"
                /\ failed(out.value) <=> twice # {}
                /\ failed(out.value) =>
                     \E x \in twice :
                        message(out.value) =
                            <<[indent |-> 0,
                               text |-> <<"Elements are not distinct: Multiple occurrences of ">>
                                        \o decimal_digits(x)]>>)
    /\ [][result.op = "none" /\ result'.op = "distinct" => sequence' = sequence]_vars

\* A failure on a sequence whose two equal elements are not neighbours.
C23_Witness ==
    /\ result.op = "distinct"
    /\ Len(Range) = 3
    /\ Range[1] = Range[3]
    /\ Range[1] # Range[2]
    /\ failed(result.out.value)

---------------------------------------------------------------------------
(* C24.  sorted(sequence, strict, decreasing) on a sequence of length >= 1 *)
(* is success iff every adjacent pair (a, b) satisfies a < b for strict    *)
(* increasing, a <= b for non-strict increasing, a > b for strict          *)
(* decreasing, a >= b for non-strict decreasing; otherwise it is a failure *)
(* that reports positions p and p+1, p the smallest index whose pair       *)
(* violates the relation.                                                  *)

\* The order relation the flags select.
Relation(strict_, decreasing, x, y) ==
    IF decreasing THEN (IF strict_ THEN x > y ELSE x >= y)
    ELSE (IF strict_ THEN x < y ELSE x <= y)

\* The 0-based positions p of the range s whose pair (s[p], s[p+1]) is not
\* in the relation.
Violations(s, strict_, decreasing) ==
    {p \in 0 .. Len(s) - 2 : ~Relation(strict_, decreasing, s[p + 1], s[p + 2])}

\* C24: with flags, on a range of one element or more, sorted returns
\* success iff no adjacent pair violates the relation of the flags, and
\* otherwise the failure "Array is not sorted: Wrong order at positions p
\* and p+1" for the smallest violating p.
C24_Sorted ==
    result.op = "sorted" /\ result.arg.form = "flags" /\ Len(Range) >= 1 =>
        LET bad == Violations(Range, result.arg.strict, result.arg.decreasing)
            out == result.out
        IN  /\ out.kind = "return"
            /\ success(out.value) <=> bad = {}
            /\ bad # {} =>
                 message(out.value) =
                     <<[indent |-> 0,
                        text |-> <<"Array is not sorted: Wrong order at positions ">>
                                 \o decimal_digits(Least(bad)) \o <<" and ">>
                                 \o decimal_digits(Least(bad) + 1)]>>

---------------------------------------------------------------------------
(* C27.  On the empty sequence, distinct and sorted (the flag form and the *)
(* comparator form) terminate and return success without reading any       *)
(* element outside the given range.                                        *)

\* C27: distinct and sorted on an empty range return success and have
\* dereferenced no iterator (every read of an empty range is outside it).
C27_EmptySequence ==
    result.op \in {"distinct", "sorted"} /\ result.begin = result.end =>
        /\ result.out.kind = "return"
        /\ success(result.out.value)
        /\ result.out.reads = <<>>

---------------------------------------------------------------------------
(* C25.  read_n_integers(n, sep): n = 0 raises InvalidArgument without     *)
(* consuming input; for n >= 1 and a non-empty sep the call returns n      *)
(* values iff the input at the cursor (after the leading separators, in    *)
(* lenient mode only) is n integer tokens with exactly sep between each    *)
(* two, every element parsed without skipping; no separator is read after  *)
(* the last element; a missing or different separator raises               *)
(* UnexpectedToken and fewer than n tokens raises Eof.                     *)

RECURSIVE Elements(_, _, _, _, _, _, _)
\* The input after the first q bytes of s, taken as k integer tokens of T
\* with sep between each two: the values and where the last token stops,
\* or why the input is not of this form and where the last good token
\* stopped (`count` tokens were good before).
Elements(s, q, T, lz, sep, k, count) ==
    LET tk == IntToken(s, q, T)
    IN  IF tk.len = 0
        THEN [ok |-> FALSE, count |-> count, at |-> q,
              why |-> IF tk.first = Len(s) THEN "input ends" ELSE "no digit"]
        ELSE IF ~Admitted(tk, T, lz)
        THEN [ok |-> FALSE, count |-> count, at |-> q, why |-> "policy"]
        ELSE IF k = 1
        THEN [ok |-> TRUE, values |-> <<tk.value>>, stop |-> tk.stop]
        ELSE IF Len(s) - tk.stop < Len(sep)
        THEN [ok |-> FALSE, count |-> count + 1, at |-> tk.stop,
              why |-> "input ends"]
        ELSE IF SubSeq(s, tk.stop + 1, tk.stop + Len(sep)) # sep
        THEN [ok |-> FALSE, count |-> count + 1, at |-> tk.stop,
              why |-> "separator"]
        ELSE LET rest == Elements(s, tk.stop + Len(sep), T, lz, sep, k - 1,
                                  count + 1)
             IN  IF rest.ok
                 THEN [ok |-> TRUE, values |-> <<tk.value>> \o rest.values,
                       stop |-> rest.stop]
                 ELSE rest

\* The reading of the input that the call performed last was given.
ElementsRead ==
    Elements(source, StringStart(source, last.pos0, strict), TypeOf(last.ty.T),
             leading_zeros, last.ty.sep, last.ty.n, 0)

\* The parts of the claim that do not name the exception: n = 0, the
\* values returned and the cursor.
ReadNReturns ==
    /\ last.ty.n = 0 => last.kind = InvalidArgumentException /\ pos = last.pos0
    /\ last.ty.n >= 1 /\ last.ty.sep # <<>> =>
         /\ last.kind = "ok" <=> ElementsRead.ok
         /\ ElementsRead.ok =>
              /\ last.val = ElementsRead.values
              /\ Len(last.val) = last.ty.n
              /\ pos = ElementsRead.stop

\* After the tokens that were good, a byte of the input is left that no
\* later token starts at: the input holds fewer than n tokens.
NoFurtherToken ==
    LET e == ElementsRead
    IN  \A i \in e.at + 1 .. Len(source) : source[i] \notin Digits

\* C25 as stated: besides the above, bytes that differ from sep where sep
\* is due raise UnexpectedToken, and the call raises Eof when the input
\* holds fewer than n tokens: when it ends where a token or sep is due, and
\* when, after a good token and sep, a byte that is no digit stands where
\* the next token is due and no token follows it in the input (if one
\* follows, the separator before it is a different one: UnexpectedToken).
C25_AsClaimed ==
    last.op = "read_n_integers" =>
        /\ ReadNReturns
        /\ last.ty.n >= 1 /\ last.ty.sep # <<>> /\ ~ElementsRead.ok =>
             /\ ElementsRead.why = "separator" =>
                  last.kind = UnexpectedReadException
             /\ ElementsRead.why = "input ends" => last.kind = EOFException
             /\ ElementsRead.why = "no digit" /\ ElementsRead.count >= 1 =>
                  IF NoFurtherToken THEN last.kind = EOFException
                  ELSE last.kind = UnexpectedReadException

\* C25: n = 0 raises InvalidArgument and leaves the cursor; for n >= 1 and
\* a non-empty sep the call returns iff the input, from the cursor (after
\* the whitespace at the cursor in lenient mode), is n admissible integer
\* tokens with sep between each two; it then returns their values and
\* leaves the cursor at the end of the last token.  Otherwise it raises
\* Eof when the input ends where a token is due or when fewer bytes than
\* sep has are left where sep is due, and UnexpectedToken when as many
\* bytes as sep has are left and differ from it or when a byte that is no
\* digit stands where a token is due.
C25_ReadNIntegers ==
    last.op = "read_n_integers" =>
        /\ ReadNReturns
        /\ last.ty.n >= 1 /\ last.ty.sep # <<>> /\ ~ElementsRead.ok =>
             /\ ElementsRead.why = "input ends" => last.kind = EOFException
             /\ ElementsRead.why \in {"separator", "no digit"} =>
                  last.kind = UnexpectedReadException

\* Lenient mode, a blank at the cursor, two numbers with a blank between
\* them: both are returned and the cursor is after the second.
C25_Witness ==
    /\ last.op = "read_n_integers"
    /\ ~strict
    /\ last.ty.n = 2
    /\ last.ty.sep = <<" ">>
    /\ last.kind = "ok"
    /\ last.pos0 = 0
    /\ source[1] = " "
    /\ last.val = <<1, 1>>
    /\ pos = 4

---------------------------------------------------------------------------
(* C26.  Cursor monotonicity: each operation on one source, whether it     *)
(* returns or raises, leaves the cursor at or after its position before    *)
(* the call; a push-back gives back one byte that the same operation has   *)
(* read; the setters and must_be_eof leave the cursor unchanged.           *)

Setters ==
    {"make_strict", "make_non_strict", "with_leading_zeros",
     "without_leading_zeros", "with_comma_as_decimal_separator",
     "with_dot_as_decimal_separator"}

\* C26: every step of the Reader leaves the cursor where it was or further
\* on, within the source (so what an operation pushes back is never more
\* than it has read itself); a setter and must_be_eof leave it where it was,
\* and no step changes the source.
C26_CursorMonotonic ==
    [][/\ pos' >= pos
       /\ pos' <= Len(source)
       /\ source' = source
       /\ last'.pos0 = pos
       /\ last'.op \in Setters \cup {"must_be_eof"} => pos' = pos]_vars

\* A lenient read_integer that skipped a byte, read a number and pushed
\* back the byte that ended it: the cursor is after the number, before that
\* byte.
C26_Witness ==
    /\ last.op = "read_integer"
    /\ last.kind = "ok"
    /\ last.pos0 = 0
    /\ source = <<"a", "1", "a">>
    /\ pos = 2

====
